---- MODULE Spec2Model ----
(***************************************************************************)
(* A model of the syntax checker server.                                   *)
(*                                                                         *)
(* The repository holds the server in successive builds:                   *)
(*   src/server.js         validation only, toolchains run on the host     *)
(*   src/unnamed/part_003  validation, then execution in docker containers *)
(*                                                                         *)
(* Three specifications share the module:                                  *)
(*   SpecCPP   the dialect search of checkCPPSyntax (both builds)          *)
(*   SpecWrap  wrapCodeSnippet and adjustErrorLineNumbers (server.js)      *)
(*   Spec      the /check-syntax pipeline of part_003, one request at a    *)
(*             time; SpecConc runs the same actions for concurrent         *)
(*             requests                                                    *)
(***************************************************************************)
EXTENDS Integers, Sequences, FiniteSets, TLC

VARIABLES
    \* ---- dialect search (checkCPPSyntax) ----
    cppBuild,      \* which build's checkCPPSyntax runs: "server.js" or "part_003"
    cppCompiler,   \* what g++ does with the request's code under each standard
    cppLoop,       \* the locals of checkCPPSyntax: position, success, lastError, usedStandard
    cppAttempts,   \* history: the compiler invocations made, in order (indices into the list)
    cppResult,     \* the value checkCPPSyntax returned, or NoResult
    \* ---- code preparation (wrapCodeSnippet, adjustErrorLineNumbers) ----
    wrapIn,        \* the request: code, normalized language, and the clock Date.now() reads
    wrapOut,       \* the handler's locals: hasWrapper, wrappedCode, result
    \* ---- the /check-syntax pipeline (part_003) ----
    clock,         \* the value Date.now() returns
    files,         \* the entries of the temp directory
    images,        \* the docker images of the host
    containers,    \* the docker containers that are running
    req,           \* per request: the handler's position and locals
    \* ---- request intake (body parser, handler checks, normalizeLanguage) ----
    intake,        \* one request: its body, the handler's position and the response
    \* ---- the periodic sweep of the temp directory ----
    wallClock,     \* the value Date.now() returns, counted in sweep periods
    tempDir,       \* the temp directory: entry name -> mtime; 0 for a name not there
    sweep,         \* the sweep callback: its position and locals
    \* ---- single functions, one call each ----
    cleanup,       \* a caller of cleanupTempFile: the paths, its position, its result
    jsCheck,       \* a call of checkJavaScriptSyntax: the parses made and the result
    diag,          \* a call of checkCSyntax or of the C++ error processing
    \* ---- the Stack class ----
    stack          \* a Stack<int> object and the program that uses it

cppVars == <<cppBuild, cppCompiler, cppLoop, cppAttempts, cppResult>>

wrapVars == <<wrapIn, wrapOut>>

pipeVars == <<clock, files, images, containers, req>>

intakeVars == <<intake>>

sweepVars == <<wallClock, tempDir, sweep>>

unitVars == <<cleanup, jsCheck, diag, stack>>

vars == <<cppVars, wrapVars, pipeVars, intakeVars, sweepVars, unitVars>>

Max(a, b) == IF a >= b THEN a ELSE b

Min(a, b) == IF a <= b THEN a ELSE b

\* The pipeline is not part of the specifications of single functions.
PipeOff ==
    /\ clock = 0
    /\ files = {}
    /\ images = {}
    /\ containers = {}
    /\ req = << >>

\* No request is at the intake in the specifications of the other parts.
IntakeOff == intake = [pc |-> "off"]

\* No single function is called in the specifications of the other parts.
CleanupOff == cleanup = [pc |-> "off"]

JsCheckOff == jsCheck = [pc |-> "off"]

DiagOff == diag = [pc |-> "off"]

StackOff == stack = [pc |-> "off"]

UnitsOff == CleanupOff /\ JsCheckOff /\ DiagOff /\ StackOff

\* The sweep is not part of the specifications of the other parts.
SweepOff ==
    /\ wallClock = 0
    /\ tempDir = << >>
    /\ sweep = [pc |-> "off"]

(***************************************************************************)
(* checkCPPSyntax: the dialect search                                      *)
(***************************************************************************)

\* The fixed, ordered list of standards, newest first.
StandardsServer ==
    << [std |-> "c++20", name |-> "C++20"],
       [std |-> "c++17", name |-> "C++17"],
       [std |-> "c++14", name |-> "C++14"],
       [std |-> "c++11", name |-> "C++11"],
       [std |-> "c++98", name |-> "C++98"] >>

StandardsDocker ==
    << [std |-> "c++20", name |-> "C++20"],
       [std |-> "c++17", name |-> "C++17"],
       [std |-> "c++14", name |-> "C++14"],
       [std |-> "c++11", name |-> "C++11"] >>

Builds == {"server.js", "part_003"}

standards(build) == IF build = "server.js" THEN StandardsServer ELSE StandardsDocker

\* What one g++ invocation can do: exit 0; exit non-zero with stderr that
\* contains the word 'standard'; exit non-zero with stderr that does not.
CompilerOutcomes == {"ok", "std", "other"}

\* The stderr of a failed invocation under standard k, as the lines the
\* extraction loop looks at: att is the attempt that wrote the line,
\* standard says whether the line contains the word 'standard', matches
\* whether it has the file:line:col: severity: message shape.
StderrOf(k, outcome) ==
    CASE outcome = "std" ->
           << [att |-> k, standard |-> TRUE,  matches |-> TRUE,  type |-> "error"],
              [att |-> k, standard |-> FALSE, matches |-> FALSE, type |-> "note"],
              [att |-> k, standard |-> FALSE, matches |-> TRUE,  type |-> "warning"] >>
      [] outcome = "other" ->
           << [att |-> k, standard |-> FALSE, matches |-> TRUE,  type |-> "warning"],
              [att |-> k, standard |-> FALSE, matches |-> TRUE,  type |-> "error"] >>
      [] OTHER -> << >>

\* e.stderr.includes('standard')
MentionsStandard(stderr) == \E j \in 1..Len(stderr) : stderr[j].standard

NoError == [att |-> 0, stderr |-> << >>]

LoopInit == [pc |-> "loop", idx |-> 1, success |-> FALSE,
             lastError |-> NoError, usedStandard |-> "null"]

\* One iteration of `for (const standard of standards)`: the invocation for
\* standards[l.idx] ended with `outcome`.
LoopBodyRetry(build, l, outcome) ==
    LET standard == standards(build)[l.idx]
        e == [att |-> l.idx, stderr |-> StderrOf(l.idx, outcome)]
    IN  IF outcome = "ok"
        THEN [l EXCEPT !.success = TRUE, !.usedStandard = standard.name, !.pc = "after"]
        ELSE IF ~MentionsStandard(e.stderr)
        THEN [l EXCEPT !.lastError = e, !.usedStandard = standard.name, !.pc = "after"]
        ELSE [l EXCEPT !.lastError = e]

LoopBodyNoBreakOnSuccess(build, l, outcome) ==
    LET standard == standards(build)[l.idx]
        e == [att |-> l.idx, stderr |-> StderrOf(l.idx, outcome)]
        more == l.idx < Len(standards(build))
        next == [l EXCEPT !.idx = l.idx + 1, !.pc = IF more THEN "loop" ELSE "after"]
    IN  IF outcome = "ok"
        THEN [next EXCEPT !.success = TRUE, !.usedStandard = standard.name]
        ELSE IF l.success
        THEN next
        ELSE IF ~MentionsStandard(e.stderr)
        THEN [l EXCEPT !.lastError = e, !.usedStandard = standard.name, !.pc = "after"]
        ELSE [next EXCEPT !.lastError = e]

LoopBodyNoBreakOnError(build, l, outcome) ==
    LET standard == standards(build)[l.idx]
        e == [att |-> l.idx, stderr |-> StderrOf(l.idx, outcome)]
        more == l.idx < Len(standards(build))
        next == [l EXCEPT !.idx = l.idx + 1, !.pc = IF more THEN "loop" ELSE "after"]
    IN  IF outcome = "ok"
        THEN [l EXCEPT !.success = TRUE, !.usedStandard = standard.name, !.pc = "after"]
        ELSE [next EXCEPT !.lastError = e,
                          !.usedStandard = IF MentionsStandard(e.stderr)
                                           THEN l.usedStandard ELSE standard.name]

LoopBodyKeepsFirstError(build, l, outcome) ==
    LET standard == standards(build)[l.idx]
        e == [att |-> l.idx, stderr |-> StderrOf(l.idx, outcome)]
        more == l.idx < Len(standards(build))
    IN  IF outcome = "ok"
        THEN [l EXCEPT !.success = TRUE, !.usedStandard = standard.name, !.pc = "after"]
        ELSE IF ~MentionsStandard(e.stderr)
        THEN [l EXCEPT !.lastError = e, !.usedStandard = standard.name, !.pc = "after"]
        ELSE [l EXCEPT !.lastError = IF l.lastError.att = 0 THEN e ELSE l.lastError,
                       !.idx = l.idx + 1,
                       !.pc = IF more THEN "loop" ELSE "after"]

LoopBody(build, l, outcome) ==
    LET standard == standards(build)[l.idx]
        e == [att |-> l.idx, stderr |-> StderrOf(l.idx, outcome)]
        more == l.idx < Len(standards(build))
    IN  IF outcome = "ok"
        THEN \* success = true; usedStandard = standard.name; break
             [l EXCEPT !.success = TRUE, !.usedStandard = standard.name, !.pc = "after"]
        ELSE IF ~MentionsStandard(e.stderr)
        THEN \* lastError = e; usedStandard = standard.name; break
             [l EXCEPT !.lastError = e, !.usedStandard = standard.name, !.pc = "after"]
        ELSE \* lastError = e; on to the next standard, if there is one
             [l EXCEPT !.lastError = e,
                       !.idx = l.idx + 1,
                       !.pc = IF more THEN "loop" ELSE "after"]

\* The extraction loop over lastError.stderr: lines that contain 'standard'
\* are skipped, lines of the diagnostic shape are pushed in order.
RECURSIVE ExtractErrors(_)
ExtractErrors(stderr) ==
    IF stderr = << >> THEN << >>
    ELSE LET line == Head(stderr)
             rest == ExtractErrors(Tail(stderr))
         IN  IF line.standard THEN rest
             ELSE IF line.matches THEN <<line>> \o rest
             ELSE rest

NoResult == [valid |-> "none"]

\* What checkCPPSyntax returns once the loop is over.
SearchResult(l) ==
    IF l.success
    THEN [valid |-> TRUE, standard |-> l.usedStandard, errors |-> << >>, from |-> 0]
    ELSE [valid |-> FALSE,
          standard |-> IF l.usedStandard = "null" THEN "Unknown" ELSE l.usedStandard,
          errors |-> ExtractErrors(l.lastError.stderr),
          from |-> l.lastError.att]

CPPInit ==
    /\ cppBuild \in Builds
    /\ cppCompiler \in [1..Len(standards(cppBuild)) -> CompilerOutcomes]
    /\ cppLoop = LoopInit
    /\ cppAttempts = << >>
    /\ cppResult = NoResult
    /\ wrapIn = [code |-> << >>, lang |-> "javascript", now |-> 1]
    /\ wrapOut = [pc |-> "off"]
    /\ PipeOff
    /\ IntakeOff
    /\ SweepOff
    /\ UnitsOff

\* await execAsync(g++ -std=...) for the current standard, and what the
\* loop does with its outcome.
CPPAttempt ==
    /\ cppLoop.pc = "loop"
    /\ cppAttempts' = Append(cppAttempts, cppLoop.idx)
    /\ cppLoop' = LoopBody(cppBuild, cppLoop, cppCompiler[cppLoop.idx])
    /\ UNCHANGED <<cppBuild, cppCompiler, cppResult, wrapVars, pipeVars, intakeVars, sweepVars, unitVars>>

\* The code after the loop: the valid result, or the processed error.
CPPReturn ==
    /\ cppLoop.pc = "after"
    /\ cppResult' = SearchResult(cppLoop)
    /\ cppLoop' = [cppLoop EXCEPT !.pc = "returned"]
    /\ UNCHANGED <<cppBuild, cppCompiler, cppAttempts, wrapVars, pipeVars, intakeVars, sweepVars, unitVars>>

\* The fields of the syntax result the handler puts in the response body:
\* server.js sends the result object itself, part_003 builds a new object
\* from valid, message, error and details (JSON drops the undefined ones).
ResponseFields(build, result) ==
    IF build = "server.js" THEN DOMAIN result
    ELSE DOMAIN result \cap {"valid", "message", "error", "details"}

\* res.json(...): the part of the body that comes from the syntax result.
CPPRespond ==
    /\ cppLoop.pc = "returned"
    /\ cppResult' = cppResult @@
                    [body |-> [k \in ResponseFields(cppBuild, cppResult) |-> cppResult[k]]]
    /\ cppLoop' = [cppLoop EXCEPT !.pc = "responded"]
    /\ UNCHANGED <<cppBuild, cppCompiler, cppAttempts, wrapVars, pipeVars, intakeVars, sweepVars, unitVars>>

CPPNext == CPPAttempt \/ CPPReturn \/ CPPRespond

SpecCPP == CPPInit /\ [][CPPNext]_vars

(***************************************************************************)
(* Code preparation: wrapCodeSnippet and adjustErrorLineNumbers            *)
(*                                                                         *)
(* A string is a sequence of symbols; the symbol NL is the newline, SP one *)
(* whitespace character, every other symbol a token of the text.  The      *)
(* wrapper's own lines are one symbol each.                                *)
(***************************************************************************)

NL == "\n"

SP == " "

\* The number of lines of user code the inputs are built from.
MaxLines == 2

\* The number of clock values Date.now() is drawn from.
MaxNow == 2

\* lines.join('\n')
RECURSIVE Join(_)
Join(lines) ==
    IF lines = << >> THEN << >>
    ELSE IF Len(lines) = 1 THEN lines[1]
    ELSE lines[1] \o <<NL>> \o Join(Tail(lines))

\* code.split('\n'): always at least one line.
RECURSIVE Split(_)
Split(s) ==
    IF \A j \in 1..Len(s) : s[j] # NL THEN <<s>>
    ELSE LET p == CHOOSE j \in 1..Len(s) :
                      s[j] = NL /\ \A m \in 1..(j - 1) : s[m] # NL
         IN  <<SubSeq(s, 1, p - 1)>> \o Split(SubSeq(s, p + 1, Len(s)))

\* code.includes(token)
Includes(s, token) == \E j \in 1..Len(s) : s[j] = token

\* lines[0].match(/^\s*/)[0].length: \s matches the newline too, but a line
\* of split('\n') holds none.
RECURSIVE LeadingSpace(_)
LeadingSpace(line) ==
    IF line # << >> /\ Head(line) = SP THEN 1 + LeadingSpace(Tail(line)) ELSE 0

\* line.slice(n)
Slice(line, n) == SubSeq(line, n + 1, Len(line))

\* lines.map(line => line.slice(indentation)).join('\n')
Unindent(code) ==
    LET lines == Split(code)
        indentation == LeadingSpace(lines[1])
    IN  Join([j \in 1..Len(lines) |-> Slice(lines[j], indentation)])

IsSpace(sym) == sym = SP \/ sym = NL

IsWord(sym) == ~IsSpace(sym) /\ sym \notin {"{", "}", "(", ")"}

\* The end of a match of /public\s+class\s+(\w+)/ that starts at p, or 0.
PublicClassEnd(s, p) ==
    IF p > Len(s) \/ s[p] # "public" THEN 0
    ELSE LET ends == {q \in (p + 4)..Len(s) :
                        \E c \in (p + 2)..(q - 2) :
                           /\ s[c] = "class"
                           /\ \A m \in (p + 1)..(c - 1) : IsSpace(s[m])
                           /\ \A m \in (c + 1)..(q - 1) : IsSpace(s[m])
                           /\ IsWord(s[q])}
         IN  IF ends = {} THEN 0 ELSE CHOOSE q \in ends : \A m \in ends : q <= m

\* unindentedCode.replace(/public\s+class\s+(\w+)/, 'class $1'): the first
\* match only.
ReplacePublicClass(s) ==
    LET starts == {p \in 1..Len(s) : PublicClassEnd(s, p) # 0}
    IN  IF starts = {} THEN s
        ELSE LET p == CHOOSE a \in starts : \A b \in starts : a <= b
                 q == PublicClassEnd(s, p)
             IN  SubSeq(s, 1, p - 1) \o <<"class", SP, s[q]>> \o SubSeq(s, q + 1, Len(s))

\* A template's lines, each ended by a newline.
RECURSIVE Lines(_)
Lines(syms) == IF syms = << >> THEN << >> ELSE <<Head(syms), NL>> \o Lines(Tail(syms))

cppIncludes ==
    Lines(<< "#include <iostream>", "#include <vector>", "#include <string>",
             "#include <map>", "#include <set>", "#include <algorithm>",
             "#include <concepts>", "#include <type_traits>", "#include <memory>",
             "#include <functional>", "#include <ranges>", "#include <span>",
             "#include <numeric>", "#include <iterator>", "#include <optional>",
             "#include <tuple>", "#include <utility>", "#include <execution>",
             "#include <compare>", "#include <stdexcept>", "#include <cstdlib>",
             "#include <cstring>", "#include <cmath>", "using namespace std;" >>)

javaImports ==
    Lines(<< "import java.util.*;", "import java.util.stream.*;",
             "import java.util.function.*;", "import java.time.*;",
             "import java.math.*;", "import java.text.*;", "import java.security.*;",
             "import java.util.concurrent.*;", "import java.util.regex.*;",
             "import java.io.*;", "import static java.util.stream.Collectors.*;" >>)

pythonImports ==
    Lines(<< "from typing import List, Optional", "import math",
             "import collections", "import heapq" >>)

cIncludes ==
    Lines(<< "#include <stdio.h>", "#include <stdlib.h>", "#include <string.h>" >>)

Indent4 == <<SP, SP, SP, SP>>

Indent8 == <<SP, SP, SP, SP, SP, SP, SP, SP>>

\* `Solution_${Date.now()}`
SolutionNames == << "Solution_1", "Solution_2", "Solution_3", "Solution_4" >>

WrapLanguages == {"javascript", "python", "java", "cpp", "c"}

\* The mutant of wrapCodeSnippet: what it puts before the code depends on
\* the time of the call.
wrapCodeSnippetByClock(code, language, now) ==
    IF now = 1 THEN Unindent(code) ELSE <<"// generated", NL>> \o Unindent(code)

\* wrapCodeSnippet(code, language), with the clock value Date.now() returns.
wrapCodeSnippet(code, language, now) ==
    LET unindentedCode == Unindent(code)
    IN  CASE language = "cpp" ->
               IF Includes(code, "template") \/ Includes(code, "concept")
               THEN cppIncludes \o <<NL>> \o unindentedCode \o <<NL, NL>>
                    \o <<"// Ensure there's at least one instantiation for templates", NL,
                         "namespace test_instantiation {", NL>>
                    \o Indent4 \o <<"void ensure_instantiation();", NL, "}">>
               ELSE IF Includes(code, "main(")
               THEN cppIncludes \o <<NL>> \o unindentedCode
               ELSE cppIncludes \o <<NL, "int main() {", NL>> \o Indent4
                    \o unindentedCode \o <<NL>> \o Indent4 \o <<"return 0;", NL, "}">>
          [] language = "java" ->
               IF Includes(code, "class")
               THEN javaImports \o <<NL>> \o ReplacePublicClass(unindentedCode)
               ELSE javaImports \o <<NL, "class ", SolutionNames[now], " {", NL>>
                    \o Indent4 \o <<"public static void main(String[] args) {", NL>>
                    \o Indent8 \o unindentedCode \o <<NL>>
                    \o Indent4 \o <<"}", NL, "}">>
          [] language = "python" ->
               pythonImports \o <<NL>> \o unindentedCode
          [] language = "c" ->
               IF Includes(code, "main(")
               THEN unindentedCode
               ELSE cIncludes \o <<NL, "int main() {", NL>> \o Indent4
                    \o unindentedCode \o <<NL>> \o Indent4 \o <<"return 0;", NL, "}">>
          [] OTHER -> code

\* const hasWrapper = !code.includes('main(') && !code.includes('class')
HasWrapper(code) == ~Includes(code, "main(") /\ ~Includes(code, "class")

\* The wrapperLines table; `|| 0` for a language it does not list.
WrapperLines(language) ==
    CASE language = "cpp" -> 24
      [] language = "java" -> 13
      [] language = "python" -> 5
      [] language = "c" -> 5
      [] OTHER -> 0

\* The adjustment of one line number; 0 stands for an absent (falsy) line.
AdjustLine(line, language) ==
    IF line = 0 THEN 0 ELSE Max(1, line - WrapperLines(language))

\* adjustErrorLineNumbers(error, language, hasWrapper)
adjustErrorLineNumbers(error, language, hasWrapper) ==
    IF ~hasWrapper THEN error
    ELSE [error EXCEPT
            !.line = AdjustLine(error.line, language),
            !.errors = [j \in 1..Len(error.errors) |->
                          AdjustLine(error.errors[j], language)]]

\* The lines the inputs are built from.
LineSet ==
    { <<"x">>, <<SP, "x">>, <<SP, SP, "y">>, << >>,
      <<"int", SP, "main(", ")">>,
      <<"public", SP, "class", SP, "Foo">>, <<"public">>, <<"class", SP, "Foo">>,
      <<"template">>, <<"concept">> }

Codes == UNION {{Join(ls) : ls \in [1..n -> LineSet]} : n \in 1..MaxLines}

\* The position in `text` where `body` first occurs, or 0.
FirstOccurrence(text, body) ==
    LET at == {p \in 1..(Len(text) - Len(body) + 1) :
                 SubSeq(text, p, p + Len(body) - 1) = body}
    IN  IF at = {} THEN 0 ELSE CHOOSE p \in at : \A q \in at : p <= q

\* The number of newlines before position p of text.
NewlinesBefore(text, p) == Cardinality({j \in 1..(p - 1) : text[j] = NL})

\* The number of lines of `text`.
LineCount(text) == Len(Split(text))

WrapInit ==
    /\ wrapIn \in [code : Codes, lang : WrapLanguages, now : 1..MaxNow]
    /\ wrapOut = [pc |-> "start"]
    /\ cppBuild = "server.js"
    /\ cppCompiler = << >>
    /\ cppLoop = [pc |-> "off"]
    /\ cppAttempts = << >>
    /\ cppResult = NoResult
    /\ PipeOff
    /\ IntakeOff
    /\ SweepOff
    /\ UnitsOff

\* The handler up to the validation call: hasWrapper and wrappedCode.
Prepare ==
    /\ wrapOut.pc = "start"
    /\ wrapOut' = [pc |-> "wrapped",
                   hasWrapper |-> HasWrapper(wrapIn.code),
                   wrappedCode |-> wrapCodeSnippet(wrapIn.code, wrapIn.lang, wrapIn.now)]
    /\ UNCHANGED <<wrapIn, cppVars, pipeVars, intakeVars, sweepVars, unitVars>>

\* The result check*Syntax returns for a diagnostic at line `raw` of the file
\* it was given; 0 stands for an absent `line`.  checkJavaScriptSyntax puts
\* the line in `line` and in details.loc, checkPythonSyntax and
\* checkJavaSyntax in the entries of `details`, checkCPPSyntax and
\* checkCSyntax in the entries of `errors`.
SyntaxError(language, raw) ==
    CASE language = "javascript" ->
           [valid |-> FALSE, line |-> raw, errors |-> << >>, details |-> <<raw>>]
      [] language \in {"python", "java"} ->
           [valid |-> FALSE, line |-> 0, errors |-> << >>, details |-> <<raw>>]
      [] OTHER ->
           [valid |-> FALSE, line |-> 0, errors |-> <<raw>>, details |-> << >>]

\* Validation accepts the wrapped code: the result goes out as it is.
ValidateOk ==
    /\ wrapOut.pc = "wrapped"
    /\ wrapOut' = [wrapOut EXCEPT !.pc = "responded"] @@
                  [raw |-> 0, result |-> [valid |-> TRUE, line |-> 0, errors |-> << >>,
                                          details |-> << >>]]
    /\ UNCHANGED <<wrapIn, cppVars, pipeVars, intakeVars, sweepVars, unitVars>>

\* Validation rejects the wrapped code with a diagnostic at line `raw` of
\* the wrapped file; the handler adjusts the result when hasWrapper holds.
ValidateFail ==
    /\ wrapOut.pc = "wrapped"
    /\ \E raw \in 1..LineCount(wrapOut.wrappedCode) :
         LET result == SyntaxError(wrapIn.lang, raw)
         IN  wrapOut' = [wrapOut EXCEPT !.pc = "responded"] @@
                        [raw |-> raw,
                         result |-> IF wrapOut.hasWrapper
                                    THEN adjustErrorLineNumbers(result, wrapIn.lang,
                                                                wrapOut.hasWrapper)
                                    ELSE result]
    /\ UNCHANGED <<wrapIn, cppVars, pipeVars, intakeVars, sweepVars, unitVars>>

WrapNext == Prepare \/ ValidateOk \/ ValidateFail

SpecWrap == WrapInit /\ [][WrapNext]_vars

(***************************************************************************)
(* The /check-syntax pipeline of part_003                                  *)
(*                                                                         *)
(* A step of a request is the code the handler runs between two awaits on  *)
(* an external process.  The awaits on the file system (writeFile, access, *)
(* unlink) are part of the step that issues them.                          *)
(***************************************************************************)

\* The number of requests a behaviour serves.
MaxRequests == 2

\* The number of times the clock ticks in a behaviour.
MaxClock == 1

Requests == 1..MaxRequests

Languages == {"javascript", "python", "java", "cpp", "c"}

\* The public class the code of a Java request declares, if any.
ClassNames == {"none", "Test"}

\* An external process the handler awaits: its command, whether exec was
\* given a timeout, and whether the command is a docker client whose work
\* runs in a container.
Proc(cmd, deadline, docker) == [cmd |-> cmd, deadline |-> deadline, docker |-> docker]

NoProc == Proc("none", FALSE, FALSE)

NoExec == [present |-> FALSE]

NoResponse == [status |-> 0]

NewRequest ==
    [pc |-> "new", lang |-> "none", cls |-> "none", proc |-> NoProc,
     loop |-> LoopInit, paths |-> {}, tag |-> {},
     createdFiles |-> {}, createdImages |-> {},
     validated |-> FALSE, valid |-> FALSE, execCalled |-> FALSE,
     fault |-> FALSE, ran |-> FALSE, exit0 |-> FALSE,
     frag |-> FALSE, cancelled |-> FALSE,
     buildOk |-> FALSE, runStarted |-> FALSE, expired |-> FALSE,
     exec |-> NoExec, resp |-> NoResponse]

\* path.join(tempDir, ...): a name is <<prefix, Date.now() or 0, extension>>.
TempFile(lang, cls, t) ==
    CASE lang = "python" -> <<"check_", t, ".py">>
      [] lang = "cpp" -> <<"check_", t, ".cpp">>
      [] lang = "c" -> <<"check_", t, ".c">>
      [] lang = "java" -> IF cls # "none" THEN <<cls, 0, ".java">>
                          ELSE <<"Check_", t, ".java">>

\* tempFile.replace('.java', '.class')
ClassFile(javaFile) == <<javaFile[1], javaFile[2], ".class">>

\* extractJavaClassName(code) || `Solution_${Date.now()}`
ExecJavaFile(cls, t) ==
    IF cls # "none" THEN <<cls, 0, ".java">> ELSE <<"Solution_", t, ".java">>

\* The file execute* writes before it starts a process.
ExecSource(lang, cls, t) ==
    CASE lang = "javascript" -> <<"js_", t, ".js">>
      [] lang = "python" -> <<"script_", t, ".py">>
      [] lang = "java" -> ExecJavaFile(cls, t)
      [] lang = "cpp" -> <<"program_", t, ".cpp">>
      [] lang = "c" -> <<"program_", t, ".c">>

\* The files execute* writes itself.
ExecWritten(lang, cls, t) ==
    IF lang = "cpp"
    THEN {ExecSource(lang, cls, t), <<"Dockerfile_", t, "">>}
    ELSE {ExecSource(lang, cls, t)}

\* The paths execute* removes when it is over; t2 is the clock at the
\* second Date.now() of executeC.
ExecPaths(lang, cls, t, t2) ==
    CASE lang = "javascript" -> {ExecSource(lang, cls, t)}
      [] lang = "python" -> {ExecSource(lang, cls, t)}
      [] lang = "java" -> {ExecJavaFile(cls, t), ClassFile(ExecJavaFile(cls, t))}
      [] lang = "cpp" -> {<<"program_", t, ".cpp">>, <<"program_", t, "">>,
                          <<"Dockerfile_", t, "">>}
      [] lang = "c" -> {<<"program_", t, ".c">>, <<"program_", t2, "">>}

\* `cpp_program_${timestamp}`
ImageTag(t) == <<"cpp_program_", t>>

\* The process check*Syntax awaits: execAsync, without a timeout.
ValidateProc(lang) ==
    CASE lang = "python" -> Proc("python3 -m py_compile", FALSE, FALSE)
      [] lang = "java" -> Proc("docker run javac", FALSE, TRUE)
      [] lang = "cpp" -> Proc("docker run g++ -fsyntax-only", FALSE, TRUE)
      [] lang = "c" -> Proc("gcc -fsyntax-only", FALSE, FALSE)

\* The first process execute* awaits: executeWithTimeout for the docker
\* commands, execAsync for node.
FirstExecProc(lang) ==
    CASE lang = "javascript" -> Proc("node", FALSE, FALSE)
      [] lang = "python" -> Proc("docker run python", TRUE, TRUE)
      [] lang = "java" -> Proc("docker run javac", TRUE, TRUE)
      [] lang = "cpp" -> Proc("docker build", TRUE, TRUE)
      [] lang = "c" -> Proc("docker run gcc", TRUE, TRUE)

\* The run step of a compiled language: executeWithTimeout.
RunProc(lang) ==
    CASE lang = "java" -> Proc("docker run java", TRUE, TRUE)
      [] lang = "cpp" -> Proc("docker run cpp_program", TRUE, TRUE)
      [] lang = "c" -> Proc("docker run program", TRUE, TRUE)

\* await execAsync(`docker rmi ...`)
RmiProc == Proc("docker rmi", FALSE, FALSE)

\* The commands that run the program of the request.
UserCode ==
    {"node", "docker run python", "docker run java", "docker run cpp_program",
     "docker run program"}

\* What of the host's file system the command lets its program see and
\* write: node runs on the host; the docker run commands of Python, Java and
\* C bind-mount the temp directory (-v "${tempDir}:/code"); the C++ program
\* runs from its image with nothing mounted.
Mount(p) ==
    CASE p.cmd = "node" -> "host"
      [] p.cmd \in {"docker run python", "docker run java", "docker run program",
                    "docker run javac", "docker run gcc",
                    "docker run g++ -fsyntax-only"} -> "tempDir"
      [] OTHER -> "none"

\* The network of the command's program: no docker run is given --network,
\* so a container is on docker's default bridge; node uses the host's.
Network(p) == IF p.docker THEN "bridge" ELSE "host"

\* The text check*Syntax writes to its temp file, as the parts it is made
\* of: checkCPPSyntax puts its headers before the code, the others write the
\* code they are given, and the handler gives them the code of the request.
ValidatedText(lang) ==
    IF lang = "cpp" THEN <<"headers", "code">> ELSE <<"code">>

\* The text execute* writes to its file: executeCPP puts the same headers
\* before the code; executeC puts the code, less its `int main() {` and its
\* last character when it contains 'main()', inside a main function of its
\* own after includes and a signal handler; the others write the code.
ExecutedText(lang) ==
    CASE lang = "cpp" -> <<"headers", "code">>
      [] lang = "c" -> <<"includes", "signal_handler", "int main() {", "signal calls",
                         "code", "return 0;", "}">>
      [] OTHER -> <<"code">>

\* The unit checkCSyntax writes to its temp file: the handler passes the
\* code of the request, not wrapCodeSnippet's output.
CheckedUnit(rq) == IF rq.frag THEN "statement" ELSE "program"

\* gcc -fsyntax-only accepts a translation unit of declarations and
\* definitions; a statement outside any function is a syntax error.
GccAccepts(unit) == unit # "statement"

\* The languages whose execution is build-then-run.
Compiled == {"java", "cpp", "c"}

FirstExecPc(lang) == IF lang \in Compiled THEN "x_build" ELSE "x_run"

\* The container a docker command of request r runs.
Container(r, p) == [req |-> r, cmd |-> p.cmd]

Spawned(r, p) == IF p.docker THEN {Container(r, p)} ELSE {}

\* executionResult: success, why it failed, and whether its error field
\* holds the stderr text of the process.
ExecResult(success, reason, stderr) ==
    [present |-> TRUE, success |-> success, reason |-> reason, stderr |-> stderr]

\* The mutant of the catch blocks of execute*: the error goes on to the
\* handler.
ExecRethrow(reason, stderr) ==
    [present |-> TRUE, success |-> FALSE, reason |-> "thrown", stderr |-> FALSE]

\* The catch blocks of execute*: the error becomes a failed result.
ExecCatch(reason, stderr) == ExecResult(FALSE, reason, stderr)

\* The handler's condition for calling execute*.
ShouldExecuteAlways(rq) == TRUE

ShouldExecute(rq) == rq.valid

\* response.execution is set when syntaxResult.valid && executionResult.
\* An error thrown inside the handler's try block is answered by its catch.
Response(rq) ==
    IF rq.exec.present /\ rq.exec.reason = "thrown"
    THEN [status |-> 500, valid |-> FALSE, execution |-> [present |-> FALSE]]
    ELSE
    [status |-> 200,
     valid |-> rq.valid,
     execution |-> IF rq.valid /\ rq.exec.present
                   THEN [present |-> TRUE,
                         success |-> rq.exec.success,
                         reason |-> rq.exec.reason,
                         stderr |-> ~rq.exec.success /\ rq.exec.stderr]
                   ELSE [present |-> FALSE]]

\* res.json(response)
Respond(rq) == [rq EXCEPT !.pc = "done", !.proc = NoProc, !.resp = Response(rq)]

\* What a step leaves behind: the request's record and the shared stores.
Eff(rq, f, i, c, t) == [rq |-> rq, files |-> f, images |-> i, containers |-> c, clock |-> t]

\* The call of execute* up to its first await on a process: the names are
\* taken from the clock, the source is written (wr: the write succeeds) and
\* the first process is started; a failed write ends the call.
StartExecute(r, rq, f, i, c, t, t2, wr) ==
    LET written == ExecWritten(rq.lang, rq.cls, t)
        paths == ExecPaths(rq.lang, rq.cls, t, t2)
        p == FirstExecProc(rq.lang)
        called == [rq EXCEPT !.execCalled = TRUE]
    IN  IF wr
        THEN Eff([called EXCEPT !.pc = FirstExecPc(rq.lang),
                                !.proc = p,
                                !.paths = paths,
                                !.tag = IF rq.lang = "cpp" THEN {ImageTag(t)} ELSE {},
                                !.createdFiles = @ \cup written],
                 f \cup written, i, c \cup Spawned(r, p), t2)
        ELSE Eff(Respond([called EXCEPT !.exec = ExecCatch("runtimeError", FALSE)]),
                 f \ paths, i, c, t2)

\* The handler after check*Syntax returned.
AfterValidate(r, rq, f, i, c, t, t2, wr) ==
    IF ShouldExecute(rq)
    THEN StartExecute(r, rq, f, i, c, t, t2, wr)
    ELSE Eff(Respond(rq), f, i, c, t)

\* The second Date.now() of a step reads the clock or its next value.
LaterClock(t) == {t, Min(t + 1, MaxClock)}

PipeInit ==
    /\ clock = 0
    /\ files = {}
    /\ images = {}
    /\ containers = {}
    /\ req = [r \in Requests |-> NewRequest]
    /\ cppBuild = "part_003"
    /\ cppCompiler = << >>
    /\ cppLoop = [pc |-> "off"]
    /\ cppAttempts = << >>
    /\ cppResult = NoResult
    /\ wrapIn = [code |-> << >>, lang |-> "javascript", now |-> 1]
    /\ wrapOut = [pc |-> "off"]
    /\ IntakeOff
    /\ SweepOff
    /\ UnitsOff

Apply(r, eff) ==
    /\ req' = [req EXCEPT ![r] = eff.rq]
    /\ files' = eff.files
    /\ images' = eff.images
    /\ containers' = eff.containers
    /\ clock' = eff.clock
    /\ UNCHANGED <<cppVars, wrapVars, intakeVars, sweepVars, unitVars>>

InFlight == {r \in Requests : req[r].pc \notin {"new", "done", "gone"}}

\* Date.now() advances.
Tick ==
    /\ clock < MaxClock
    /\ clock' = clock + 1
    /\ UNCHANGED <<files, images, containers, req, cppVars, wrapVars, intakeVars, sweepVars, unitVars>>

\* The handler from its entry to its first await on a process: the language
\* is normalized, check*Syntax takes the temp file's name from the clock,
\* writes the code (wr: the write succeeds) and starts the toolchain.  For
\* javascript the parse is synchronous (parses: babel accepts the code) and
\* the step runs on into executeJavaScript.  frag: the code of a C request
\* is one well-formed statement that is not a declaration, such as
\* printf("hi"); and nothing else.
Arrive(r) ==
    /\ req[r].pc = "new"
    /\ \E lang \in Languages, cls \in ClassNames, wr \in BOOLEAN, parses \in BOOLEAN,
          frag \in BOOLEAN :
         /\ lang # "java" => cls = "none"
         /\ lang # "javascript" => parses
         /\ lang # "c" => ~frag
         /\ LET rq == [NewRequest EXCEPT !.lang = lang, !.cls = cls, !.frag = frag]
                p == ValidateProc(lang)
                tempFile == TempFile(lang, cls, clock)
            IN  Apply(r,
                  IF lang = "javascript"
                  THEN AfterValidate(r, [rq EXCEPT !.validated = TRUE, !.valid = parses],
                                     files, images, containers, clock, clock, wr)
                  ELSE IF wr
                  THEN Eff([rq EXCEPT !.pc = "v_run", !.proc = p,
                                      !.paths = {tempFile},
                                      !.createdFiles = {tempFile}],
                           files \cup {tempFile}, images,
                           containers \cup Spawned(r, p), clock)
                  ELSE \* the catch of check*Syntax; checkJavaSyntax removes nothing
                       Eff(Respond([rq EXCEPT !.validated = TRUE, !.valid = FALSE,
                                              !.fault = TRUE]),
                           IF lang = "java" THEN files ELSE files \ {tempFile},
                           images, containers, clock))

\* The toolchain process of check*Syntax exits.  checkCPPSyntax goes on with
\* its loop; the others return, and a valid result takes the handler into
\* execute* up to its first await.  checkCSyntax gave gcc the code as the
\* request sent it: a statement at file scope is an error.
ValidateExit(r) ==
    /\ req[r].pc = "v_run"
    /\ \E outcome \in CompilerOutcomes, wr \in BOOLEAN, t2 \in LaterClock(clock) :
         /\ req[r].lang # "cpp" => outcome # "std"
         /\ ~GccAccepts(CheckedUnit(req[r])) => outcome # "ok"
         /\ req[r].lang # "c" => t2 = clock
         /\ LET rq == req[r]
                exited == containers \ Spawned(r, rq.proc)
                l == LoopBody("part_003", rq.loop, outcome)
                classes == {ClassFile(f) : f \in rq.paths}
                checked(v) == [rq EXCEPT !.validated = TRUE, !.valid = v, !.proc = NoProc]
            IN  Apply(r,
                  CASE rq.lang = "cpp" /\ l.pc = "loop" ->
                         Eff([rq EXCEPT !.loop = l], files, images,
                             exited \cup Spawned(r, rq.proc), clock)
                    [] rq.lang = "cpp" /\ l.pc # "loop" ->
                         AfterValidate(r, [checked(l.success) EXCEPT !.loop = l],
                                       files \ rq.paths, images, exited, clock, t2, wr)
                    [] rq.lang = "java" /\ outcome = "ok" ->
                         \* javac wrote the class file; both files are removed
                         AfterValidate(r, [checked(TRUE) EXCEPT !.createdFiles = @ \cup classes],
                                       files \ (rq.paths \cup classes), images, exited,
                                       clock, t2, wr)
                    [] rq.lang = "java" /\ outcome # "ok" ->
                         \* the catch returns the result and removes nothing
                         AfterValidate(r, checked(FALSE), files, images, exited, clock, t2, wr)
                    [] OTHER ->
                         AfterValidate(r, checked(outcome = "ok"),
                                       files \ rq.paths, images, exited, clock, t2, wr))

\* The end of execute*: executeCPP goes on to its docker rmi, the others
\* remove their files in the finally block and the handler responds.
ExecDone(rq, res, f, i, c, t) ==
    IF rq.lang = "cpp"
    THEN Eff([rq EXCEPT !.exec = res, !.pc = "x_rmi", !.proc = RmiProc], f, i, c, t)
    ELSE Eff(Respond([rq EXCEPT !.exec = res]), f \ rq.paths, i, c, t)

\* The build step exits (ok: with status 0; stderr: it wrote to stderr).
BuildExit(r) ==
    /\ req[r].pc = "x_build"
    /\ \E ok \in BOOLEAN, stderr \in BOOLEAN :
         LET rq == req[r]
             exited == containers \ Spawned(r, rq.proc)
             p == RunProc(rq.lang)
             \* what the compiler leaves in the temp directory
             built == CASE rq.lang = "java" -> {f \in rq.paths : f[3] = ".class"}
                        [] rq.lang = "c" -> {f \in rq.paths : f[3] = ""}
                        [] OTHER -> {}
             run == [rq EXCEPT !.pc = "x_run", !.proc = p,
                               !.buildOk = TRUE, !.runStarted = TRUE,
                               !.createdFiles = @ \cup built,
                               !.createdImages = @ \cup rq.tag]
             failed == ExecCatch("runtimeError", TRUE)
         IN  Apply(r,
               IF ~ok
               THEN ExecDone(rq, failed, files, images, exited, clock)
               ELSE IF rq.lang = "cpp" /\ stderr
               THEN \* if (buildStderr): the image exists, the program is not run
                    ExecDone([rq EXCEPT !.createdImages = @ \cup rq.tag,
                                        !.buildOk = TRUE],
                             ExecResult(FALSE, "compile", TRUE),
                             files, images \cup rq.tag, exited, clock)
               ELSE Eff(run, files \cup built, images \cup rq.tag,
                        exited \cup Spawned(r, p), clock))

\* What execute* returns when the run step exits.  says: the text the
\* program wrote to stderr contains 'timed out'; exec puts stderr in the
\* message of the error it rejects with, and the catch blocks of the docker
\* paths look for 'timed out' in that message.
RunResult(lang, exit0, stderr, says) ==
    CASE ~exit0 /\ says /\ lang # "javascript" -> ExecCatch("timeout", FALSE)
      [] ~exit0 /\ ~(says /\ lang # "javascript") -> ExecCatch("runtimeError", TRUE)
      [] exit0 /\ lang \in {"javascript", "c"} ->
           ExecResult(~stderr, IF stderr THEN "runtimeError" ELSE "none", stderr)
      [] OTHER -> ExecResult(TRUE, "none", stderr)

\* The run step exits.
RunExit(r) ==
    /\ req[r].pc = "x_run"
    /\ \E exit0 \in BOOLEAN, stderr \in BOOLEAN, says \in BOOLEAN :
         /\ says => (stderr /\ ~exit0)
         /\ LET rq == req[r]
                exited == containers \ Spawned(r, rq.proc)
                left == [rq EXCEPT !.ran = TRUE, !.exit0 = exit0]
            IN  Apply(r, ExecDone(left, RunResult(rq.lang, exit0, stderr, says),
                                  files, images, exited, clock))

\* The timeout of executeWithTimeout expires: exec sends SIGTERM to the
\* child it started, the docker client, and the promise rejects with
\* 'Command timed out'.  Nothing stops the container: it ends with the
\* client or runs on (survives).
Expire(r) ==
    /\ req[r].pc \in {"x_build", "x_run"}
    /\ req[r].proc.deadline
    /\ \E survives \in BOOLEAN :
         LET rq == req[r]
             left == IF survives THEN containers ELSE containers \ Spawned(r, rq.proc)
         IN  Apply(r, ExecDone([rq EXCEPT !.expired = TRUE], ExecCatch("timeout", FALSE),
                               files, images, left, clock))

\* docker rmi exits: the image is removed unless a container still runs
\* from it; then the outer finally removes the files and the handler
\* responds.
RmiExit(r) ==
    /\ req[r].pc = "x_rmi"
    /\ LET rq == req[r]
           inUse == Container(r, RunProc("cpp")) \in containers
       IN  Apply(r, Eff(Respond(rq), files \ rq.paths,
                        IF inUse THEN images ELSE images \ rq.tag,
                        containers, clock))

\* A container nobody waits for any more ends by itself.
OrphanExit ==
    /\ \E c \in containers :
         /\ ~(req[c.req].pc \in {"v_run", "x_build", "x_run"} /\ req[c.req].proc.cmd = c.cmd)
         /\ containers' = containers \ {c}
    /\ UNCHANGED <<clock, files, images, req, cppVars, wrapVars, intakeVars, sweepVars, unitVars>>

\* The handler's locals are dropped once the response is out.
Retire(r) ==
    /\ req[r].pc = "done"
    /\ req' = [req EXCEPT ![r] = [NewRequest EXCEPT !.pc = "gone"]]
    /\ UNCHANGED <<clock, files, images, containers, cppVars, wrapVars, intakeVars, sweepVars, unitVars>>

Continue(r) ==
    ValidateExit(r) \/ BuildExit(r) \/ RunExit(r) \/ Expire(r) \/ RmiExit(r) \/ Retire(r)

\* One request at a time: a request arrives when the one before is over.
Serve(r) == (\A q \in Requests : q < r => req[q].pc = "gone") /\ Arrive(r)

\* Concurrent requests: a request arrives at any time.
Admit(r) == (\A q \in Requests : q < r => req[q].pc # "new") /\ Arrive(r)

Next == Tick \/ OrphanExit \/ \E r \in Requests : Serve(r) \/ Continue(r)

NextConc == Tick \/ OrphanExit \/ \E r \in Requests : Admit(r) \/ Continue(r)

Spec == PipeInit /\ [][Next]_vars

SpecConc == PipeInit /\ [][NextConc]_vars

\* The client closes the connection while the handler awaits a process.  The
\* handler registers no listener for it and passes no signal to exec, so
\* nothing but the socket changes.
Disconnect(r) ==
    /\ req[r].pc \in {"v_run", "x_build", "x_run", "x_rmi"}
    /\ ~req[r].cancelled
    /\ req' = [req EXCEPT ![r].cancelled = TRUE]
    /\ UNCHANGED <<clock, files, images, containers, cppVars, wrapVars, intakeVars, sweepVars, unitVars>>

NextCancel == Next \/ \E r \in Requests : Disconnect(r)

SpecCancel == PipeInit /\ [][NextCancel]_vars

(***************************************************************************)
(* Request intake: the body parser, the handler's checks and               *)
(* normalizeLanguage                                                       *)
(*                                                                         *)
(* A string is the sequence of its characters.  The code of a request is   *)
(* held by its length only; it has no percent escapes, so part_003's       *)
(* decodeURIComponent leaves it as it is.                                  *)
(***************************************************************************)

\* How many leading characters of an identifier vary in letter case.
MaxCase == 2

LowerLetters ==
    << "a", "b", "c", "d", "e", "f", "g", "h", "i", "j", "k", "l", "m",
       "n", "o", "p", "q", "r", "s", "t", "u", "v", "w", "x", "y", "z" >>

UpperLetters ==
    << "A", "B", "C", "D", "E", "F", "G", "H", "I", "J", "K", "L", "M",
       "N", "O", "P", "Q", "R", "S", "T", "U", "V", "W", "X", "Y", "Z" >>

\* The mutant of toLowerCase: the identifier is looked up as it was sent.
AsSent(s) == s

\* String.prototype.toLowerCase
toLowerCase(s) ==
    [j \in 1..Len(s) |->
       IF \E k \in 1..26 : UpperLetters[k] = s[j]
       THEN LowerLetters[CHOOSE k \in 1..26 : UpperLetters[k] = s[j]]
       ELSE s[j]]

\* The own properties of LANGUAGE_ALIASES, in the order of the literal.
AliasEntries ==
    << << <<"j","a","v","a","s","c","r","i","p","t">>, "javascript" >>,
       << <<"j","s">>, "javascript" >>,
       << <<"n","o","d","e">>, "javascript" >>,
       << <<"n","o","d","e","j","s">>, "javascript" >>,
       << <<"e","c","m","a","s","c","r","i","p","t">>, "javascript" >>,
       << <<"t","y","p","e","s","c","r","i","p","t">>, "javascript" >>,
       << <<"t","s">>, "javascript" >>,
       << <<"p","y","t","h","o","n">>, "python" >>,
       << <<"p","y">>, "python" >>,
       << <<"p","y","t","h","o","n","3">>, "python" >>,
       << <<"p","y","3">>, "python" >>,
       << <<"j","a","v","a">>, "java" >>,
       << <<"j","a","v","a","s","e">>, "java" >>,
       << <<"c","p","p">>, "cpp" >>,
       << <<"c","+","+">>, "cpp" >>,
       << <<"c","p","l","u","s","p","l","u","s">>, "cpp" >>,
       << <<"c","+","+","1","1">>, "cpp" >>,
       << <<"c","+","+","1","4">>, "cpp" >>,
       << <<"c","+","+","1","7">>, "cpp" >>,
       << <<"c","+","+","2","0">>, "cpp" >>,
       << <<"c">>, "c" >>,
       << <<"a","n","s","i","-","c">>, "c" >>,
       << <<"c","1","1">>, "c" >>,
       << <<"c","1","7">>, "c" >>
    >>

\* Object.keys(LANGUAGE_ALIASES)
AliasKeys == {AliasEntries[j][1] : j \in 1..Len(AliasEntries)}

LANGUAGE_ALIASES ==
    [key \in AliasKeys |->
       AliasEntries[CHOOSE j \in 1..Len(AliasEntries) : AliasEntries[j][1] = key][2]]

\* The properties an object literal inherits from Object.prototype whose
\* names a lowercased string can equal: constructor and __proto__.
InheritedKeys ==
    { <<"c","o","n","s","t","r","u","c","t","o","r">>,
      <<"_","_","p","r","o","t","o","_","_">> }

\* LANGUAGE_ALIASES[key]: an own property, an inherited one (an object or a
\* function, not a string), or undefined.
Lookup(key) ==
    IF key \in AliasKeys THEN LANGUAGE_ALIASES[key]
    ELSE IF key \in InheritedKeys THEN "[object]"
    ELSE "undefined"

\* return LANGUAGE_ALIASES[lang.toLowerCase()] || null
normalizeLanguage(lang) ==
    LET found == Lookup(toLowerCase(lang))
    IN  IF found = "undefined" THEN "null" ELSE found

\* if (code.length > 1000000) of the handler (server.js) and of check*Syntax
CodeLimit == 1000000

\* MAX_CODE_SIZE, the body limit part_003 gives express.json
MAX_CODE_SIZE == 1048576

\* The body limit of express.json() without options ('100kb'), as in server.js
DefaultJsonLimit == 102400

\* The bytes of {"code":"","language":""}, the body around the two strings
EnvelopeBytes == 25

IntakeBuilds == {"server.js", "part_003"}

\* The identifiers requests carry before their letter case is varied: the
\* aliases, two identifiers no table knows, and the inherited names.
Identifiers ==
    AliasKeys \cup InheritedKeys
    \cup { <<"c","o","b","o","l">>, <<"r","u","s","t">> }

\* The lengths of the code requests carry; 0 is a missing or empty code.
CodeLengths ==
    {0, 1, DefaultJsonLimit, CodeLimit, CodeLimit + 1, MAX_CODE_SIZE}

\* The identifier with the letters at the positions of `mask` in upper case.
UpperAt(s, mask) ==
    [j \in 1..Len(s) |->
       IF j \in mask /\ \E k \in 1..26 : LowerLetters[k] = s[j]
       THEN UpperLetters[CHOOSE k \in 1..26 : LowerLetters[k] = s[j]]
       ELSE s[j]]

\* A request as it reaches the server.  An empty language is a missing one.
\* languageType is the JSON type of the language field; for a number the
\* identifier holds its digits.
NewIntake(build, codeLen, base, language, languageType) ==
    [pc |-> "received", build |-> build, codeLen |-> codeLen,
     base |-> base, language |-> language, languageType |-> languageType,
     normalizedLang |-> "none", status |-> 0, valid |-> FALSE,
     wroteFile |-> FALSE, startedProcess |-> FALSE]

IntakeInit ==
    /\ \E build \in IntakeBuilds, codeLen \in CodeLengths,
          base \in Identifiers \cup {<< >>} :
         \E mask \in SUBSET (1..Min(Len(base), MaxCase)) :
            \/ intake = NewIntake(build, codeLen, base, UpperAt(base, mask), "string")
            \/ /\ base = << >>
               /\ intake = NewIntake(build, codeLen, <<"5">>, <<"5">>, "number")
    /\ cppBuild = "server.js"
    /\ cppCompiler = << >>
    /\ cppLoop = [pc |-> "off"]
    /\ cppAttempts = << >>
    /\ cppResult = NoResult
    /\ wrapIn = [code |-> << >>, lang |-> "javascript", now |-> 1]
    /\ wrapOut = [pc |-> "off"]
    /\ PipeOff
    /\ SweepOff
    /\ UnitsOff

\* The bytes of the request body.
BodyBytes(rq) == rq.codeLen + Len(rq.language) + EnvelopeBytes

\* The limit express.json enforces.
JsonLimit(build) == IF build = "part_003" THEN MAX_CODE_SIZE ELSE DefaultJsonLimit

\* res.status(s).json(...) before anything was validated
Reject(rq, s) == [rq EXCEPT !.pc = "responded", !.status = s]

\* express.json: a body above the limit is answered 413 and the handler is
\* not called.
BodyParser ==
    /\ intake.pc = "received"
    /\ intake' = IF BodyBytes(intake) > JsonLimit(intake.build)
                 THEN Reject(intake, 413)
                 ELSE [intake EXCEPT !.pc = "handler"]
    /\ UNCHANGED <<cppVars, wrapVars, pipeVars, sweepVars, unitVars>>

\* The handler from its entry to the call of check*Syntax.  In server.js a
\* normalized language that is not a string makes wrapCodeSnippet throw
\* inside the try block; in part_003 it falls to the default of the switch.
HandlerChecks(rq) ==
    LET normalizedLang == normalizeLanguage(rq.language)
        normalized == [rq EXCEPT !.normalizedLang = normalizedLang]
    IN  IF rq.codeLen = 0 \/ rq.language = << >> THEN Reject(rq, 400)
        ELSE IF rq.build = "server.js" /\ rq.codeLen > CodeLimit THEN Reject(rq, 400)
        ELSE IF normalizedLang = "null" THEN Reject(normalized, 400)
        ELSE IF normalizedLang \notin Languages
        THEN Reject(normalized, IF rq.build = "server.js" THEN 500 ELSE 400)
        ELSE [normalized EXCEPT !.pc = "validate"]

\* normalizeLanguage(language) is called outside the handler's try block;
\* lang.toLowerCase is not a function when the language is not a string.
Throws(rq) ==
    /\ rq.codeLen # 0 /\ rq.language # << >>
    /\ ~(rq.build = "server.js" /\ rq.codeLen > CodeLimit)
    /\ rq.languageType # "string"

\* The handler is an async function: what it throws rejects the promise it
\* returned.  Express 4 ignores that promise and nothing answers the
\* request; Express 5 forwards the rejection to its error handler, which
\* answers 500.  The source does not fix the Express version.
Handler ==
    /\ intake.pc = "handler"
    /\ IF Throws(intake)
       THEN \E forwarded \in BOOLEAN :
               intake' = IF forwarded THEN Reject(intake, 500)
                         ELSE [intake EXCEPT !.pc = "rejected"]
       ELSE intake' = HandlerChecks(intake)
    /\ UNCHANGED <<cppVars, wrapVars, pipeVars, sweepVars, unitVars>>

\* check*Syntax and what follows it, as far as resources go: the size check
\* of check*Syntax returns an invalid result before anything is written;
\* checkJavaScriptSyntax parses in memory, and part_003 then writes and runs
\* the code it found valid; the other checkers write the temp file and start
\* the toolchain.
Validate ==
    /\ intake.pc = "validate"
    /\ \E parses \in BOOLEAN :
         LET oversized == intake.codeLen > CodeLimit
             inMemory == intake.normalizedLang = "javascript"
             allocates == IF inMemory THEN intake.build = "part_003" /\ parses
                          ELSE TRUE
         IN  intake' = [intake EXCEPT
                          !.pc = "responded", !.status = 200,
                          !.valid = ~oversized /\ parses,
                          !.wroteFile = ~oversized /\ allocates,
                          !.startedProcess = ~oversized /\ allocates]
    /\ UNCHANGED <<cppVars, wrapVars, pipeVars, sweepVars, unitVars>>

IntakeNext == BodyParser \/ Handler \/ Validate

SpecIntake == IntakeInit /\ [][IntakeNext]_vars

\* The event loop runs every callback that is ready.
SpecIntakeLive == SpecIntake /\ WF_vars(IntakeNext)

(***************************************************************************)
(* The periodic sweep of the temp directory                                *)
(*                                                                         *)
(* The callback of setInterval runs between the awaits of the handlers of  *)
(* in-flight requests: each action below is the code between two awaits.   *)
(***************************************************************************)

\* The number of times the clock advances in a behaviour.
MaxTicks == 3

\* The milliseconds the clock advances by.
ClockStep == 1800000

\* if (now - stats.mtimeMs > 3600000)
Retention == 3600000

\* The time of tick t in milliseconds.
Ms(t) == t * ClockStep

\* tempDir[name] of a name that is not in the directory.
Absent == 0 - 1

\* The names of the temp directory: the file named after the public class
\* of a Java request, and the files named after the clock at their creation.
ClassNamed == <<"Test.java", 0>>

Stamped(t) == <<"check_.py", t>>

SweepNames == {ClassNamed} \cup {Stamped(t) : t \in 0..MaxTicks}

\* The sweep between two passes.
SweepIdle == [pc |-> "idle", files |-> << >>, now |-> 0, idx |-> 0, aborted |-> FALSE]

\* fs.readdir(tempDir): the names in the directory, in some order.
Listings ==
    LET present == {f \in SweepNames : tempDir[f] # Absent}
    IN  {l \in [1..Cardinality(present) -> present] :
           \A j, k \in 1..Cardinality(present) : j # k => l[j] # l[k]}

SweepInit ==
    /\ wallClock = 0
    /\ tempDir = [f \in SweepNames |-> Absent]
    /\ sweep = SweepIdle
    /\ cppBuild = "server.js"
    /\ cppCompiler = << >>
    /\ cppLoop = [pc |-> "off"]
    /\ cppAttempts = << >>
    /\ cppResult = NoResult
    /\ wrapIn = [code |-> << >>, lang |-> "javascript", now |-> 1]
    /\ wrapOut = [pc |-> "off"]
    /\ PipeOff
    /\ IntakeOff
    /\ UnitsOff

\* Date.now() advances.
SweepTick ==
    /\ wallClock < MaxTicks
    /\ wallClock' = wallClock + 1
    /\ UNCHANGED <<tempDir, sweep, cppVars, wrapVars, pipeVars, intakeVars, unitVars>>

\* A request writes its temp file: fs.writeFile creates the file or
\* overwrites the one of that name.  A stamped name is written at its time.
RequestWrites ==
    /\ \E f \in {ClassNamed, Stamped(wallClock)} :
         tempDir' = [tempDir EXCEPT ![f] = wallClock]
    /\ UNCHANGED <<wallClock, sweep, cppVars, wrapVars, pipeVars, intakeVars, unitVars>>

\* A request removes its temp file (cleanupTempFile).
RequestRemoves ==
    /\ \E f \in SweepNames :
         /\ tempDir[f] # Absent
         /\ tempDir' = [tempDir EXCEPT ![f] = Absent]
    /\ UNCHANGED <<wallClock, sweep, cppVars, wrapVars, pipeVars, intakeVars, unitVars>>

\* The position after the entry at idx: the next entry, or the end of the
\* pass.
NextEntry(s) ==
    IF s.idx < Len(s.files)
    THEN [s EXCEPT !.pc = "stat", !.idx = s.idx + 1]
    ELSE [s EXCEPT !.pc = "ended"]

\* The timer fires: readdir resolves and `now` is read.
SweepStart ==
    /\ sweep.pc \in {"idle", "ended"}
    /\ \E l \in Listings :
         sweep' = NextEntry([pc |-> "stat", files |-> l, now |-> wallClock,
                             idx |-> 0, aborted |-> FALSE])
    /\ UNCHANGED <<wallClock, tempDir, cppVars, wrapVars, pipeVars, intakeVars, unitVars>>

\* now - stats.mtimeMs > 3600000
TooOld(nowRead, mtime) == Ms(nowRead) - Ms(mtime) > Retention

\* await fs.stat(filePath) resolves, and the age test.  When the entry is
\* gone stat rejects with ENOENT, the catch around the loop logs the error
\* and the pass is over.
SweepStat ==
    /\ sweep.pc = "stat"
    /\ LET f == sweep.files[sweep.idx]
       IN  sweep' = IF tempDir[f] = Absent
                    THEN [sweep EXCEPT !.pc = "ended", !.aborted = TRUE]
                    ELSE IF TooOld(sweep.now, tempDir[f])
                    THEN [sweep EXCEPT !.pc = "unlink"]
                    ELSE NextEntry(sweep)
    /\ UNCHANGED <<wallClock, tempDir, cppVars, wrapVars, pipeVars, intakeVars, unitVars>>

\* cleanupTempFile(filePath): access and unlink remove whatever is at the
\* path by now; an entry that is gone is passed over.
SweepUnlink ==
    /\ sweep.pc = "unlink"
    /\ tempDir' = [tempDir EXCEPT ![sweep.files[sweep.idx]] = Absent]
    /\ sweep' = NextEntry(sweep)
    /\ UNCHANGED <<wallClock, cppVars, wrapVars, pipeVars, intakeVars, unitVars>>

SweepNext ==
    SweepTick \/ RequestWrites \/ RequestRemoves \/ SweepStart \/ SweepStat \/ SweepUnlink

SpecSweep == SweepInit /\ [][SweepNext]_vars

(***************************************************************************)
(* cleanupTempFile and a function that calls it                            *)
(*                                                                         *)
(* The caller has its result in hand (check*Syntax before its return,      *)
(* execute* in its finally block) and awaits cleanupTempFile for each of    *)
(* its paths in turn.                                                       *)
(***************************************************************************)

\* The number of paths one caller releases (executeCPP releases three).
MaxPaths == 3

\* What the file system holds at a path: a file that can be removed, nothing,
\* a file unlink refuses to remove (EPERM, EBUSY), or a path access cannot
\* reach (EACCES).
PathStates == {"file", "gone", "undeletable", "unreachable"}

\* The results a caller is about to return.
CallerResults == {"valid", "invalid", "executed"}

\* fs.access(filePath): the error code it rejects with, or "ok".
AccessOf(state) ==
    CASE state = "gone" -> "ENOENT"
      [] state = "unreachable" -> "EACCES"
      [] OTHER -> "ok"

\* fs.unlink(filePath): the error code it rejects with, or "ok".
UnlinkOf(state) ==
    CASE state = "gone" -> "ENOENT"
      [] state = "undeletable" -> "EPERM"
      [] state = "unreachable" -> "EACCES"
      [] OTHER -> "ok"

\* The mutant of the catch block: an error other than ENOENT is thrown on.
CatchRethrows(code) == [logged |-> code # "ENOENT", thrown |-> code # "ENOENT"]

\* catch (error) { if (error.code !== 'ENOENT') console.error(...) }
Catch(code) == [logged |-> code # "ENOENT", thrown |-> FALSE]

CleanupInit ==
    /\ \E n \in 1..MaxPaths :
         \E fs \in [1..n -> PathStates], result \in CallerResults :
            cleanup = [pc |-> "access", idx |-> 1, fs |-> fs, result |-> result,
                       logged |-> 0, returned |-> "none"]
    /\ cppBuild = "server.js"
    /\ cppCompiler = << >>
    /\ cppLoop = [pc |-> "off"]
    /\ cppAttempts = << >>
    /\ cppResult = NoResult
    /\ wrapIn = [code |-> << >>, lang |-> "javascript", now |-> 1]
    /\ wrapOut = [pc |-> "off"]
    /\ PipeOff
    /\ IntakeOff
    /\ SweepOff
    /\ JsCheckOff
    /\ DiagOff
    /\ StackOff

\* cleanupTempFile is over for the path at idx: after an error its catch
\* block ran.  The caller goes on to its next path or returns its result; an
\* error thrown out of cleanupTempFile rejects the caller's await.
AfterCleanup(c, code) ==
    LET caught == IF code = "ok" THEN [logged |-> FALSE, thrown |-> FALSE]
                  ELSE Catch(code)
        counted == [c EXCEPT !.logged = @ + (IF caught.logged THEN 1 ELSE 0)]
    IN  IF caught.thrown
        THEN [counted EXCEPT !.pc = "rejected"]
        ELSE IF c.idx < Len(c.fs)
        THEN [counted EXCEPT !.pc = "access", !.idx = c.idx + 1]
        ELSE [counted EXCEPT !.pc = "returned", !.returned = c.result]

\* await fs.access(filePath) settles.
CleanupAccess ==
    /\ cleanup.pc = "access"
    /\ LET code == AccessOf(cleanup.fs[cleanup.idx])
       IN  cleanup' = IF code = "ok"
                      THEN [cleanup EXCEPT !.pc = "unlink"]
                      ELSE AfterCleanup(cleanup, code)
    /\ UNCHANGED <<cppVars, wrapVars, pipeVars, intakeVars, sweepVars, jsCheck, diag, stack>>

\* await fs.unlink(filePath) settles.
CleanupUnlink ==
    /\ cleanup.pc = "unlink"
    /\ LET state == cleanup.fs[cleanup.idx]
           code == UnlinkOf(state)
           removed == [cleanup EXCEPT !.fs[cleanup.idx] =
                                        IF code = "ok" THEN "gone" ELSE state]
       IN  cleanup' = AfterCleanup(removed, code)
    /\ UNCHANGED <<cppVars, wrapVars, pipeVars, intakeVars, sweepVars, jsCheck, diag, stack>>

\* Someone else (the sweep, another request) removes a file of the caller
\* while the caller is between two awaits.
RemovedElsewhere ==
    /\ cleanup.pc \in {"access", "unlink"}
    /\ \E j \in 1..Len(cleanup.fs) :
         /\ cleanup.fs[j] = "file"
         /\ cleanup' = [cleanup EXCEPT !.fs[j] = "gone"]
    /\ UNCHANGED <<cppVars, wrapVars, pipeVars, intakeVars, sweepVars, jsCheck, diag, stack>>

CleanupNext == CleanupAccess \/ CleanupUnlink \/ RemovedElsewhere

SpecCleanup == CleanupInit /\ [][CleanupNext]_vars

(***************************************************************************)
(* checkJavaScriptSyntax                                                   *)
(*                                                                         *)
(* What babelParse does with the code under each sourceType is the input:  *)
(* it returns, or throws an error with or without a code and a location.    *)
(***************************************************************************)

\* The lines a parse error is located at.
MaxLoc == 2

\* error.code of the errors babelParse throws for the code; "none" is an
\* error without a code.
ErrorCodes == {"BABEL_PARSER_SYNTAX_ERROR", "BABEL_PARSER_SOURCETYPE_MODULE_REQUIRED", "none"}

\* The outcomes of a parse under `sourceType`: loc 0 is an error without loc.
ParseOutcomes(sourceType) ==
    {[ok |-> TRUE, by |-> sourceType, code |-> "none", loc |-> 0]}
    \cup {[ok |-> FALSE, by |-> sourceType, code |-> c, loc |-> l] :
            c \in ErrorCodes, l \in 0..MaxLoc}

JsValid == [valid |-> TRUE, by |-> "none", line |-> 0, type |-> "none"]

\* The result of the size check, which has no line and no details.
JsTooLarge == [valid |-> FALSE, by |-> "size", line |-> 0, type |-> "none"]

\* The mutant of the choice between the two errors: always the first one.
RelevantIsModule(scriptError, moduleError) == moduleError

\* scriptError.code === 'BABEL_PARSER_SYNTAX_ERROR' ? scriptError : moduleError
Relevant(scriptError, moduleError) ==
    IF scriptError.code = "BABEL_PARSER_SYNTAX_ERROR" THEN scriptError ELSE moduleError

\* The invalid result built from the chosen error: line: error.loc?.line || 1
\* and type: error.code || 'SyntaxError'.
JsInvalid(error) ==
    [valid |-> FALSE, by |-> error.by,
     line |-> IF error.loc = 0 THEN 1 ELSE error.loc,
     type |-> IF error.code = "none" THEN "SyntaxError" ELSE error.code]

JsInit ==
    /\ \E asModule \in ParseOutcomes("module"), asScript \in ParseOutcomes("script"),
          oversized \in BOOLEAN :
         jsCheck = [pc |-> "start", oversized |-> oversized,
                    asModule |-> asModule, asScript |-> asScript,
                    parses |-> << >>, result |-> [valid |-> FALSE, by |-> "pending",
                                                  line |-> 0, type |-> "none"]]
    /\ cppBuild = "server.js"
    /\ cppCompiler = << >>
    /\ cppLoop = [pc |-> "off"]
    /\ cppAttempts = << >>
    /\ cppResult = NoResult
    /\ wrapIn = [code |-> << >>, lang |-> "javascript", now |-> 1]
    /\ wrapOut = [pc |-> "off"]
    /\ PipeOff
    /\ IntakeOff
    /\ SweepOff
    /\ CleanupOff
    /\ DiagOff
    /\ StackOff

\* The size check, and the parse with sourceType 'module'.
JsParseModule ==
    /\ jsCheck.pc = "start"
    /\ jsCheck' =
         IF jsCheck.oversized
         THEN [jsCheck EXCEPT !.pc = "returned", !.result = JsTooLarge]
         ELSE IF jsCheck.asModule.ok
         THEN [jsCheck EXCEPT !.pc = "returned", !.parses = <<"module">>,
                              !.result = JsValid]
         ELSE [jsCheck EXCEPT !.pc = "moduleFailed", !.parses = <<"module">>]
    /\ UNCHANGED <<cppVars, wrapVars, pipeVars, intakeVars, sweepVars, cleanup, diag, stack>>

\* catch (moduleError): the parse with sourceType 'script', and the result
\* when it fails too.
JsParseScript ==
    /\ jsCheck.pc = "moduleFailed"
    /\ jsCheck' =
         [jsCheck EXCEPT
            !.pc = "returned",
            !.parses = Append(@, "script"),
            !.result = IF jsCheck.asScript.ok THEN JsValid
                       ELSE JsInvalid(Relevant(jsCheck.asScript, jsCheck.asModule))]
    /\ UNCHANGED <<cppVars, wrapVars, pipeVars, intakeVars, sweepVars, cleanup, diag, stack>>

JsNext == JsParseModule \/ JsParseScript

SpecJs == JsInit /\ [][JsNext]_vars

(***************************************************************************)
(* Diagnostics: checkCSyntax, and the error processing of checkCPPSyntax   *)
(*                                                                         *)
(* The compiler's stderr is a sequence of lines.  A line is held by what    *)
(* the code looks at: whether it starts with file:line:col:, the word that  *)
(* follows, whether it contains 'standard', and its message.                *)
(***************************************************************************)

\* The number of lines of compiler output.
MaxOut == 3

\* The word after file:line:col: (or at the start of an unlocated line).
Severities == {"error", "warning", "note", "fatal error"}

OutputLines ==
    [located : BOOLEAN, type : Severities, standard : BOOLEAN]

Outputs == UNION {[1..n -> OutputLines] : n \in 0..MaxOut}

\* The message of line j of the output; each line has its own.
MessageOf(j) == j

\* line.match(/(.*?):(\d+):(\d+):\s*(warning|error):\s*(.*)/)
Matches(line) == line.located /\ line.type \in {"warning", "error"}

\* The compiler exits with status 0 unless it reported an error.
ExitsZero(stderr) ==
    \A j \in 1..Len(stderr) : stderr[j].type \notin {"error", "fatal error"}

\* The entry pushed for line j.
Entry(stderr, j) == [at |-> j, type |-> stderr[j].type, message |-> MessageOf(j)]

\* The mutant of the C++ skip: lines that contain 'standard' are kept.
SkippedNever(language, line) == FALSE

\* if (line.includes('standard')) continue; -- in checkCPPSyntax only
Skipped(language, line) == language = "cpp" /\ line.standard

\* The loop over errorLines: the entries of `errors`, in the order pushed.
RECURSIVE Extract(_, _, _)
Extract(language, stderr, j) ==
    IF j > Len(stderr) THEN << >>
    ELSE IF ~Skipped(language, stderr[j]) /\ Matches(stderr[j])
    THEN <<Entry(stderr, j)>> \o Extract(language, stderr, j + 1)
    ELSE Extract(language, stderr, j + 1)

\* The mutant of mainError: the message of the last error pushed.
RECURSIVE MainErrorLast(_)
MainErrorLast(errors) ==
    IF errors = << >> THEN 0
    ELSE IF errors[Len(errors)].type = "error" THEN errors[Len(errors)].message
    ELSE MainErrorLast(SubSeq(errors, 1, Len(errors) - 1))

\* if (type === 'error' && !mainError) mainError = msg; 0 is the empty
\* string mainError starts as.
RECURSIVE MainError(_)
MainError(errors) ==
    IF errors = << >> THEN 0
    ELSE IF Head(errors).type = "error" THEN Head(errors).message
    ELSE MainError(Tail(errors))

\* What the function returns.  `error` is the message of the main error for
\* C++ (-1: 'Syntax error in C++ code') and the whole stderr for C (-2).
DiagResult(language, exit0, stderr) ==
    LET errors == Extract(language, stderr, 1)
    IN  IF exit0
        THEN [valid |-> TRUE, error |-> 0, errors |-> << >>]
        ELSE IF language = "cpp"
        THEN [valid |-> FALSE,
              error |-> IF MainError(errors) = 0 THEN 0 - 1 ELSE MainError(errors),
              errors |-> errors]
        ELSE [valid |-> FALSE, error |-> 0 - 2, errors |-> errors]

\* checkCSyntax runs gcc on any code; the error processing of checkCPPSyntax
\* runs on the stderr of a g++ invocation that failed.
DiagInit ==
    /\ \E language \in {"c", "cpp"}, stderr \in Outputs :
         /\ language = "cpp" => ~ExitsZero(stderr)
         /\ diag = [pc |-> "compiling", language |-> language, stderr |-> stderr,
                    exit0 |-> FALSE,
                    result |-> [valid |-> FALSE, error |-> 0, errors |-> << >>]]
    /\ cppBuild = "server.js"
    /\ cppCompiler = << >>
    /\ cppLoop = [pc |-> "off"]
    /\ cppAttempts = << >>
    /\ cppResult = NoResult
    /\ wrapIn = [code |-> << >>, lang |-> "javascript", now |-> 1]
    /\ wrapOut = [pc |-> "off"]
    /\ PipeOff
    /\ IntakeOff
    /\ SweepOff
    /\ CleanupOff
    /\ JsCheckOff
    /\ StackOff

\* await execAsync(...) settles: it resolves on exit status 0 and rejects
\* with the stderr otherwise.
DiagCompilerExits ==
    /\ diag.pc = "compiling"
    /\ diag' = [diag EXCEPT !.pc = "settled", !.exit0 = ExitsZero(diag.stderr)]
    /\ UNCHANGED <<cppVars, wrapVars, pipeVars, intakeVars, sweepVars, cleanup, jsCheck, stack>>

\* The code after the await, up to the return.
DiagReturn ==
    /\ diag.pc = "settled"
    /\ diag' = [diag EXCEPT !.pc = "returned",
                            !.result = DiagResult(diag.language, diag.exit0, diag.stderr)]
    /\ UNCHANGED <<cppVars, wrapVars, pipeVars, intakeVars, sweepVars, cleanup, jsCheck, stack>>

DiagNext == DiagCompilerExits \/ DiagReturn

SpecDiag == DiagInit /\ [][DiagNext]_vars

(***************************************************************************)
(* The Stack class template (stack_test.cpp; Stack.hpp has the same push,  *)
(* pop and isEmpty)                                                        *)
(*                                                                         *)
(* The object is its two members.  The program that uses it first pushes   *)
(* in a loop, as the tests do to fill the stack, and then makes a few      *)
(* calls of any kind.  Each push is given a value of its own.              *)
(***************************************************************************)

\* static const int MAX_SIZE = 100;
MAX_SIZE == 100

\* The number of calls the program makes after the filling loop.
MaxOps == 3

\* The value of an array element nothing was assigned to yet.
Indeterminate == 0 - 1

\* Stack() : top(-1) {}
NewStack == [arr |-> [j \in 0..(MAX_SIZE - 1) |-> Indeterminate], top |-> 0 - 1]

\* What a call gives back: the object after it, the exception it threw, and
\* its return value.
Outcome(obj, threw, value) == [obj |-> obj, threw |-> threw, value |-> value]

\* The mutant of push: the test lets one element too many in.
pushOffByOne(s, value) ==
    IF s.top >= MAX_SIZE
    THEN Outcome(s, "overflow_error", 0)
    ELSE Outcome([arr |-> IF s.top + 1 \in DOMAIN s.arr
                          THEN [s.arr EXCEPT ![s.top + 1] = value] ELSE s.arr,
                  top |-> s.top + 1], "none", 0)

\* void push(const T& value)
push(s, value) ==
    IF s.top >= MAX_SIZE - 1
    THEN Outcome(s, "overflow_error", 0)
    ELSE Outcome([arr |-> [s.arr EXCEPT ![s.top + 1] = value], top |-> s.top + 1],
                 "none", 0)

\* bool isEmpty() const
isEmpty(s) == s.top = 0 - 1

\* int size() const
size(s) == s.top + 1

\* The mutant of pop: the element at the bottom is returned.
popOldest(s) ==
    IF isEmpty(s)
    THEN Outcome(s, "underflow_error", 0)
    ELSE Outcome([s EXCEPT !.top = s.top - 1], "none", s.arr[0])

\* The mutant of pop: an empty stack is not reported.
popSilent(s) ==
    IF isEmpty(s)
    THEN Outcome(s, "none", 0)
    ELSE Outcome([s EXCEPT !.top = s.top - 1], "none", s.arr[s.top])

\* T pop()
pop(s) ==
    IF isEmpty(s)
    THEN Outcome(s, "underflow_error", 0)
    ELSE Outcome([s EXCEPT !.top = s.top - 1], "none", s.arr[s.top])

\* T peek() const
peek(s) ==
    IF isEmpty(s)
    THEN Outcome(s, "underflow_error", 0)
    ELSE Outcome(s, "none", s.arr[s.top])

NoCall == [op |-> "none"]

\* Stack<int> intStack;
StackInit ==
    /\ stack = [pc |-> "filling", obj |-> NewStack, pushes |-> 0, calls |-> 0,
                outstanding |-> {}, last |-> NoCall]
    /\ cppBuild = "server.js"
    /\ cppCompiler = << >>
    /\ cppLoop = [pc |-> "off"]
    /\ cppAttempts = << >>
    /\ cppResult = NoResult
    /\ wrapIn = [code |-> << >>, lang |-> "javascript", now |-> 1]
    /\ wrapOut = [pc |-> "off"]
    /\ PipeOff
    /\ IntakeOff
    /\ SweepOff
    /\ CleanupOff
    /\ JsCheckOff
    /\ DiagOff

\* The program's record of a call: the object before it, the values pushed
\* and not yet popped before it, and what the call gave back.
Called(op, out, flag) ==
    [op |-> op, before |-> stack.obj, held |-> stack.outstanding,
     threw |-> out.threw, value |-> out.value, flag |-> flag]

\* intStack.push(v): in the filling loop, which runs while the stack is not
\* full, or as one of the calls after it.
StackPush ==
    /\ \/ stack.pc = "filling" /\ size(stack.obj) < MAX_SIZE
       \/ stack.pc = "free" /\ stack.calls < MaxOps
    /\ LET v == stack.pushes + 1
           out == push(stack.obj, v)
       IN  stack' = [stack EXCEPT
                       !.obj = out.obj,
                       !.pushes = v,
                       !.calls = IF stack.pc = "free" THEN @ + 1 ELSE @,
                       !.outstanding = IF out.threw = "none" THEN @ \cup {v} ELSE @,
                       !.last = Called("push", out, FALSE)]
    /\ UNCHANGED <<cppVars, wrapVars, pipeVars, intakeVars, sweepVars, cleanup, jsCheck, diag>>

\* intStack.pop()
StackPop ==
    /\ stack.pc \in {"filling", "free"}
    /\ stack.calls < MaxOps
    /\ LET out == pop(stack.obj)
       IN  stack' = [stack EXCEPT
                       !.pc = "free",
                       !.obj = out.obj,
                       !.calls = @ + 1,
                       !.outstanding = IF out.threw = "none" THEN @ \ {out.value} ELSE @,
                       !.last = Called("pop", out, FALSE)]
    /\ UNCHANGED <<cppVars, wrapVars, pipeVars, intakeVars, sweepVars, cleanup, jsCheck, diag>>

\* intStack.peek()
StackPeek ==
    /\ stack.pc \in {"filling", "free"}
    /\ stack.calls < MaxOps
    /\ LET out == peek(stack.obj)
       IN  stack' = [stack EXCEPT
                       !.pc = "free",
                       !.obj = out.obj,
                       !.calls = @ + 1,
                       !.last = Called("peek", out, FALSE)]
    /\ UNCHANGED <<cppVars, wrapVars, pipeVars, intakeVars, sweepVars, cleanup, jsCheck, diag>>

\* intStack.size() and intStack.isEmpty(), as the tests print them
StackObserve ==
    /\ stack.pc \in {"filling", "free"}
    /\ stack.calls < MaxOps
    /\ stack' = [stack EXCEPT
                   !.pc = "free",
                   !.calls = @ + 1,
                   !.last = Called("observe",
                                   Outcome(stack.obj, "none", size(stack.obj)),
                                   isEmpty(stack.obj))]
    /\ UNCHANGED <<cppVars, wrapVars, pipeVars, intakeVars, sweepVars, cleanup, jsCheck, diag>>

StackNext == StackPush \/ StackPop \/ StackPeek \/ StackObserve

SpecStack == StackInit /\ [][StackNext]_vars

(***************************************************************************)
(* The line numbers of the containerized checkCPPSyntax (part_003)         *)
(***************************************************************************)

\* let headers = ''; headers += ...
dockerHeaders ==
    Lines(<< "#include <iostream>", "#include <stdexcept>", "#include <string>",
             "#include <vector>", "#include <algorithm>", "#include <memory>",
             "#include <cstdlib>", "#include <cstring>", "#include <cctype>",
             "#include <cmath>" >>)
    \o <<NL, "using namespace std;", NL, NL>>

\* The mutant of the adjustment: the length of the split is subtracted.
AdjustedLineNumSplit(lineNum) == Max(1, lineNum - Len(Split(dockerHeaders)))

\* Math.max(1, parseInt(lineNum) - headers.split('\n').length + 1)
AdjustedLineNum(lineNum) == Max(1, lineNum - Len(Split(dockerHeaders)) + 1)

AdjustInit ==
    /\ diag \in [pc : {"start"}, code : Codes]
    /\ cppBuild = "part_003"
    /\ cppCompiler = << >>
    /\ cppLoop = [pc |-> "off"]
    /\ cppAttempts = << >>
    /\ cppResult = NoResult
    /\ wrapIn = [code |-> << >>, lang |-> "javascript", now |-> 1]
    /\ wrapOut = [pc |-> "off"]
    /\ PipeOff
    /\ IntakeOff
    /\ SweepOff
    /\ CleanupOff
    /\ JsCheckOff
    /\ StackOff

\* const finalCode = headers + code; await fs.writeFile(tempFile, finalCode)
AdjustWrite ==
    /\ diag.pc = "start"
    /\ diag' = [pc |-> "written", code |-> diag.code,
                finalCode |-> dockerHeaders \o diag.code]
    /\ UNCHANGED <<cppVars, wrapVars, pipeVars, intakeVars, sweepVars, cleanup, jsCheck, stack>>

\* g++ rejects the file with a diagnostic at one of its lines, and the error
\* processing pushes the entry for it.
AdjustReport ==
    /\ diag.pc = "written"
    /\ \E lineNum \in 1..LineCount(diag.finalCode) :
         diag' = [pc |-> "reported", code |-> diag.code, finalCode |-> diag.finalCode,
                  lineNum |-> lineNum, line |-> AdjustedLineNum(lineNum)]
    /\ UNCHANGED <<cppVars, wrapVars, pipeVars, intakeVars, sweepVars, cleanup, jsCheck, stack>>

AdjustNext == AdjustWrite \/ AdjustReport

SpecAdjust == AdjustInit /\ [][AdjustNext]_vars

(***************************************************************************)
(* Properties of the pipeline                                              *)
(***************************************************************************)

Responded(r) == req[r].pc = "done"

\* C1: once a request has completed, whatever its outcome, every temp file
\* and every image created for it is absent from the temp directory and from
\* the image store.
C1_CleanupTotality ==
    \A r \in Requests :
       Responded(r) => /\ req[r].createdFiles \cap files = {}
                       /\ req[r].createdImages \cap images = {}

\* C2: no two requests in flight are ever assigned the same temp file path,
\* Java source name or image name.
C2_NamesPerRequest ==
    \A r1, r2 \in InFlight :
       r1 # r2 => /\ req[r1].paths \cap req[r2].paths = {}
                  /\ req[r1].tag \cap req[r2].tag = {}

\* The execution of request r ran past its deadline.
TimedOut(r) == req[r].exec.present /\ req[r].expired

\* C3: an execution that runs past its deadline returns a timeout failure,
\* and once the call has returned no process or container started for it is
\* still running.
C3_NothingRunsAfterTimeout ==
    \A r \in Requests :
       (Responded(r) /\ TimedOut(r))
       => /\ req[r].resp.execution.present
          /\ ~req[r].resp.execution.success
          /\ ~\E c \in containers : c.req = r

\* C4: every external process the validate stage and the execute stage
\* await was started under a deadline.
C4_EveryProcessHasDeadline ==
    \A r \in Requests :
       req[r].pc \in {"v_run", "x_build", "x_run", "x_rmi"} => req[r].proc.deadline

\* C5: execute* is called, and the response carries an execution field, only
\* for a request whose syntax result has been produced and is valid.
C5_ExecuteOnlyIfValid ==
    \A r \in Requests :
       /\ req[r].execCalled => (req[r].validated /\ req[r].valid)
       /\ req[r].pc \in {"x_build", "x_run", "x_rmi"} => req[r].execCalled
       /\ req[r].exec.present => req[r].execCalled
       /\ Responded(r)
          => /\ req[r].resp.valid = req[r].valid
             /\ req[r].resp.execution.present
                => (req[r].validated /\ req[r].valid /\ req[r].execCalled)

C5_Witness ==
    \E r, q \in Requests :
       /\ Responded(r)
       /\ req[r].resp.valid
       /\ req[r].resp.execution.present
       /\ req[r].resp.execution.success
       /\ req[r].lang = "cpp"
       /\ req[q].pc = "gone"

\* C15: a request whose validation met an internal fault (the temp file
\* could not be written, the toolchain could not be started) ends with a 5xx
\* response, never with a 200 response that says valid:false.
C15_FaultIsServerError ==
    \A r \in Requests :
       (Responded(r) /\ req[r].fault) => req[r].resp.status \in 500..599

\* The validation of request r found the code invalid.
CompileFailed(r) == req[r].validated /\ ~req[r].valid /\ ~req[r].fault

\* The execution of request r failed: timeout, non-zero exit, crash.
SandboxFailed(r) == req[r].exec.present /\ ~req[r].exec.success

\* C16: a compile or parse failure and a sandbox failure never produce a
\* server error: the response is a 200 with valid:false, or with
\* execution.success false.
C16_FailuresAreStructured ==
    \A r \in Requests :
       (Responded(r) /\ (CompileFailed(r) \/ SandboxFailed(r)))
       => /\ req[r].resp.status = 200
          /\ CompileFailed(r) => ~req[r].resp.valid
          /\ SandboxFailed(r) => /\ req[r].resp.execution.present
                                 /\ ~req[r].resp.execution.success

C16_Witness ==
    \E r \in Requests :
       /\ Responded(r)
       /\ req[r].lang = "python"
       /\ SandboxFailed(r)
       /\ req[r].expired
       /\ req[r].exec.reason = "timeout"
       /\ req[r].resp.status = 200
       /\ ~req[r].resp.execution.success

\* C17: the success flag of the execution result is true exactly when the
\* executed process exited with status 0, whatever it wrote to stderr.
C17_SuccessIsExitStatus ==
    \A r \in Requests :
       (Responded(r) /\ req[r].ran) => (req[r].exec.success <=> req[r].exit0)

\* C18: when an execution succeeds and the process wrote to stderr, the
\* response carries that stderr text.
C18_StderrOfSuccessSurfaced ==
    \A r \in Requests :
       (Responded(r) /\ req[r].exec.present /\ req[r].exec.success /\ req[r].exec.stderr)
       => (req[r].resp.execution.present /\ req[r].resp.execution.stderr)

\* The files the program of request r can read and write while it runs.
Visible(r) == IF Mount(req[r].proc) = "none" THEN {} ELSE files

RunningUserCode(r) == req[r].pc = "x_run" /\ req[r].proc.cmd \in UserCode

\* C27: while the program of a request runs, the only files it can reach
\* are the request's own, it is not on the host, and it has no network.
C27_SandboxIsolation ==
    \A r \in Requests :
       RunningUserCode(r)
       => /\ Visible(r) \subseteq req[r].paths
          /\ Mount(req[r].proc) # "host"
          /\ Network(req[r].proc) = "none"

\* C28: once the client has disconnected, the process the handler awaits
\* does not run on to its own exit.
C28_CancelTerminatesProcess ==
    [][\A r \in Requests :
          (req[r].cancelled /\ req[r].pc \in {"v_run", "x_build", "x_run"})
          => ~(ValidateExit(r) \/ BuildExit(r) \/ RunExit(r))]_vars

\* C30: a C request whose code is a well-formed statement without an entry
\* point, and whose files could be written, is answered valid:true.
C30_FragmentIsValid ==
    \A r \in Requests :
       (Responded(r) /\ req[r].lang = "c" /\ req[r].frag /\ ~req[r].fault)
       => req[r].resp.valid

\* The build step of request r is over.
BuildOver(r) ==
    /\ req[r].lang \in Compiled
    /\ req[r].execCalled
    /\ req[r].pc # "x_build"

\* C31: for a compiled language the run step is started if and only if the
\* build step of the request exited with status 0 before its deadline.
C31_RunIffBuildSucceeded ==
    \A r \in Requests : BuildOver(r) => (req[r].runStarted <=> req[r].buildOk)

\* C37: an execution is reported as timed out only if the deadline of one
\* of its steps expired.
C37_TimeoutOnlyIfExpired ==
    \A r \in Requests :
       (Responded(r) /\ req[r].resp.status = 200 /\ req[r].resp.execution.present
        /\ req[r].resp.execution.reason = "timeout")
       => req[r].expired

\* C38: the text execute* writes and runs for a request is the text
\* check*Syntax accepted for it.
C38_ExecutedIsValidated ==
    \A r \in Requests :
       (req[r].execCalled /\ req[r].pc \in {"x_build", "x_run"})
       => ExecutedText(req[r].lang) = ValidatedText(req[r].lang)

\* The toolchain of request r is at work on the file the request wrote.
Validating(r) == req[r].pc = "v_run"

\* C40: while the toolchain of a request works on the request's file, the
\* file is there, and no other request in flight has written to its path,
\* so that it holds the text this request wrote.
C40_NoInterference ==
    \A r \in Requests :
       Validating(r)
       => /\ req[r].paths \subseteq files
          /\ \A q \in InFlight \ {r} : req[q].createdFiles \cap req[r].paths = {}

(***************************************************************************)
(* Properties of the code preparation                                      *)
(***************************************************************************)

\* The user's code as the wrapper places it.
PlacedCode ==
    IF wrapIn.lang = "java" /\ Includes(wrapIn.code, "class")
    THEN ReplacePublicClass(Unindent(wrapIn.code))
    ELSE Unindent(wrapIn.code)

\* The user's code can be found in the wrapped text: it starts with a token.
Locatable == PlacedCode # << >> /\ ~IsSpace(PlacedCode[1])

\* The number of lines the wrapped text holds before the first line of the
\* user's code, measured on the wrapped text itself.
InjectedBefore ==
    NewlinesBefore(wrapOut.wrappedCode, FirstOccurrence(wrapOut.wrappedCode, PlacedCode))

\* The path taken placed text before the user's code.
WrappingPath ==
    /\ wrapOut.pc \in {"wrapped", "responded"}
    /\ wrapIn.lang \in {"cpp", "java", "python", "c"}
    /\ Locatable
    /\ FirstOccurrence(wrapOut.wrappedCode, PlacedCode) > 1

\* C10: on every wrapping path the offset adjustErrorLineNumbers subtracts
\* for the language equals the number of lines wrapCodeSnippet placed before
\* the first line of the user's code.
C10_OffsetMatchesInjected ==
    WrappingPath => WrapperLines(wrapIn.lang) = InjectedBefore

\* The line numbers the response carries: the top-level `line`, the entries
\* of `errors` and the entries of `details`.
ResponseLines ==
    LET res == wrapOut.result
    IN  (IF res.line = 0 THEN {} ELSE {res.line})
        \cup {res.errors[j] : j \in 1..Len(res.errors)}
        \cup {res.details[j] : j \in 1..Len(res.details)}

\* C11: when lines were placed before the user's code and validation fails,
\* every line number of the response is the remapped one: a diagnostic at
\* raw line offset + k (k >= 1) is reported at k, one at a raw line up to the
\* offset at 1, and no raw line number of the wrapped file is returned.
C11_LineRemap ==
    (WrappingPath /\ wrapOut.pc = "responded" /\ ~wrapOut.result.valid)
    => \A n \in ResponseLines : n = Max(1, wrapOut.raw - InjectedBefore)

\* The wrapped text with the generated class name, which is made of the time
\* of the call, replaced by a fixed word.
Structure(text) ==
    [j \in 1..Len(text) |->
       IF \E n \in 1..Len(SolutionNames) : text[j] = SolutionNames[n]
       THEN "Solution_" ELSE text[j]]

\* The offset the handler subtracts for the prepared code.
OffsetOf(hasWrapper, language) == IF hasWrapper THEN WrapperLines(language) ELSE 0

StrippedLines ==
    LET all == Split(wrapOut.wrappedCode)
        n == LineCount(wrapIn.code)
    IN  SubSeq(all, Len(all) - n + 1, Len(all))

\* C29: indentation stripping removes leading whitespace only: each line of
\* the output is the line of the input less some of its leading whitespace,
\* so no other character of the user's code is removed.
C29_OnlyLeadingWhitespaceRemoved ==
    (wrapOut.pc = "wrapped" /\ wrapIn.lang = "python")
    => LET lines == Split(wrapIn.code)
       IN  \A j \in 1..Len(lines) :
             \E k \in 0..LeadingSpace(lines[j]) :
                StrippedLines[j] = Slice(lines[j], k)

(***************************************************************************)
(* Properties of the request intake                                        *)
(***************************************************************************)

ClientError == intake.status \in 400..499

NothingAllocated == ~intake.wroteFile /\ ~intake.startedProcess

\* C12: a request whose language identifier, lowercased, is not a key of the
\* alias table is answered with a client error, and no temp file is written
\* and no toolchain process is started for it.
C12_UnknownLanguageRejected ==
    (intake.pc = "responded" /\ toLowerCase(intake.language) \notin AliasKeys)
    => (ClientError /\ NothingAllocated)

\* C13: every alias of a language, in any letter case, is normalized to the
\* canonical code the table gives the alias, and that code is one of
\* javascript, python, java, cpp, c.
C13_NormalizeAliases ==
    (intake.pc \in {"validate", "responded"} /\ intake.normalizedLang # "none"
       /\ intake.base \in AliasKeys)
    => /\ intake.normalizedLang = LANGUAGE_ALIASES[intake.base]
       /\ intake.normalizedLang \in {"javascript", "python", "java", "cpp", "c"}
       /\ normalizeLanguage(intake.language) = normalizeLanguage(intake.base)

C13_Witness ==
    /\ intake.pc = "validate"
    /\ intake.base = <<"c","+","+","1","7">>
    /\ intake.language = <<"C","+","+","1","7">>
    /\ intake.normalizedLang = "cpp"

\* C14: a request with missing code or language, or with code above the
\* maximum source size, is answered with a client error and writes no temp
\* file and starts no toolchain process.
C14_ClientErrorsBeforeAllocation ==
    (intake.pc = "responded"
       /\ (intake.codeLen = 0 \/ intake.language = << >> \/ intake.codeLen > CodeLimit))
    => (ClientError /\ NothingAllocated)

\* C39: every request is answered in the end, whatever the JSON types of
\* its fields.
C39_EveryRequestAnswered == <>(intake.pc = "responded")

(***************************************************************************)
(* Properties of the sweep                                                 *)
(***************************************************************************)

\* The sweep removes the entry it is at.
SweepDeletes ==
    /\ sweep.pc = "unlink"
    /\ sweep' # sweep
    /\ tempDir[sweep.files[sweep.idx]] # Absent
    /\ tempDir'[sweep.files[sweep.idx]] = Absent

\* C19: the sweep deletes an entry only if its last-modified age exceeds
\* the retention threshold; an entry a request created or modified within
\* the threshold is never deleted by the sweep.
C19_SweepDeletesOnlyOld ==
    [][SweepDeletes
       => Ms(wallClock) - Ms(tempDir[sweep.files[sweep.idx]]) > Retention]_vars

\* C20: when requests create and delete files while a pass runs, the pass
\* still deletes every other entry older than the threshold: once it is
\* over, no entry it listed is left that was older than the threshold when
\* the pass read the clock.
C20_PassDeletesEveryOldEntry ==
    sweep.pc = "ended"
    => \A j \in 1..Len(sweep.files) :
          tempDir[sweep.files[j]] = Absent
          \/ ~TooOld(sweep.now, tempDir[sweep.files[j]])

(***************************************************************************)
(* Properties of cleanupTempFile                                           *)
(***************************************************************************)

C22_ModuleThenScript ==
    (jsCheck.pc = "returned" /\ ~jsCheck.oversized)
    => /\ jsCheck.parses = IF jsCheck.asModule.ok THEN <<"module">>
                           ELSE <<"module", "script">>
       /\ jsCheck.result.valid <=> (jsCheck.asModule.ok \/ jsCheck.asScript.ok)
       /\ ~jsCheck.result.valid
          => jsCheck.result.by =
               IF jsCheck.asScript.code = "BABEL_PARSER_SYNTAX_ERROR"
               THEN "script" ELSE "module"

C22_Witness ==
    /\ jsCheck.pc = "returned"
    /\ jsCheck.parses = <<"module", "script">>
    /\ ~jsCheck.result.valid
    /\ jsCheck.asScript.code = "BABEL_PARSER_SYNTAX_ERROR"
    /\ jsCheck.asModule.code = "BABEL_PARSER_SYNTAX_ERROR"
    /\ jsCheck.result.by = "script"
    /\ jsCheck.result.line = jsCheck.asScript.loc
    /\ jsCheck.asScript.loc # jsCheck.asModule.loc

(***************************************************************************)
(* Properties of the diagnostics                                           *)
(***************************************************************************)

\* The lines of the output that have the diagnostic shape.
MatchingLines == {j \in 1..Len(diag.stderr) : Matches(diag.stderr[j])}

\* The lines of the output the result has an entry for.
ReportedLines == {diag.result.errors[k].at : k \in 1..Len(diag.result.errors)}

\* C23: for C, the warnings and the errors the compiler emitted are all in
\* the result as diagnostics, and valid is false exactly when an
\* error-severity diagnostic was emitted.
C23_WarningsAndErrorsCaptured ==
    (diag.pc = "returned" /\ diag.language = "c")
    => /\ diag.result.valid <=> ExitsZero(diag.stderr)
       /\ ReportedLines = MatchingLines

\* C24: in a failed C++ validation the diagnostics are in the order the
\* compiler emitted them, and the primary error is the message of the first
\* error-severity diagnostic in that order.
C24_OrderAndPrimaryError ==
    (diag.pc = "returned" /\ diag.language = "cpp" /\ ~diag.result.valid)
    => LET errors == diag.result.errors
           firstError == {k \in 1..Len(errors) :
                            /\ errors[k].type = "error"
                            /\ \A h \in 1..(k - 1) : errors[h].type # "error"}
       IN  /\ \A h, k \in 1..Len(errors) : h < k => errors[h].at < errors[k].at
           /\ \A k \in firstError : diag.result.error = errors[k].message
           /\ firstError = {} => diag.result.error = 0 - 1

C24_Witness ==
    /\ diag.pc = "returned"
    /\ diag.language = "cpp"
    /\ Len(diag.result.errors) = 3
    /\ diag.result.errors[1].type = "warning"
    /\ diag.result.errors[2].type = "error"
    /\ diag.result.errors[3].type = "error"
    /\ diag.result.error = diag.result.errors[2].message

\* C25, as stated: when validation fails, the diagnostics have one entry for
\* each line of the output that has the diagnostic shape and none for any
\* other line.
C25_EveryMatchingLine ==
    (diag.pc = "returned" /\ ~diag.result.valid)
    => /\ ReportedLines = MatchingLines
       /\ Len(diag.result.errors) = Cardinality(MatchingLines)

\* C25, amended: the above holds for C; for C++ the lines that contain the
\* word 'standard' are left out as well, whatever their shape.
C25_MatchingLinesButStandard ==
    (diag.pc = "returned" /\ ~diag.result.valid)
    => LET kept == {j \in MatchingLines :
                      diag.language = "cpp" => ~diag.stderr[j].standard}
       IN  /\ ReportedLines = kept
           /\ Len(diag.result.errors) = Cardinality(kept)

C25_Witness ==
    /\ diag.pc = "returned"
    /\ diag.language = "cpp"
    /\ Len(diag.stderr) = 3
    /\ Matches(diag.stderr[1]) /\ diag.stderr[1].standard
    /\ Matches(diag.stderr[2]) /\ ~diag.stderr[2].standard
    /\ ~Matches(diag.stderr[3])
    /\ ReportedLines = {2}

(***************************************************************************)
(* Properties of the containerized line numbers                            *)
(***************************************************************************)

\* The number of lines of the written file that lie before the first line
\* of the user's code, counted on the file.
HeaderLines == NewlinesBefore(diag.finalCode, Len(diag.finalCode) - Len(diag.code) + 1)

\* C36: the line reported for a diagnostic is its line in the file less the
\* number of header lines, and 1 for a diagnostic in the headers: the first
\* line of the user's code is reported as line 1.
C36_HeaderOffset ==
    diag.pc = "reported"
    => /\ diag.line = Max(1, diag.lineNum - HeaderLines)
       /\ SubSeq(diag.finalCode, Len(diag.finalCode) - Len(diag.code) + 1,
                 Len(diag.finalCode)) = diag.code

C36_Witness ==
    /\ diag.pc = "reported"
    /\ diag.code # << >>
    /\ diag.lineNum = HeaderLines + 1
    /\ diag.line = 1

(***************************************************************************)
(* Properties of the Stack class                                           *)
(***************************************************************************)

\* The elements the object holds, bottom first.
Held(obj) == [j \in 1..size(obj) |-> obj.arr[j - 1]]

\* The greatest element of a non-empty set of numbers.
Greatest(S) == CHOOSE v \in S : \A w \in S : w <= v

\* C33: pop returns the most recently pushed value that was not popped yet,
\* and the object holds the values pushed and not popped with later pushes
\* above earlier ones, so popping to empty gives them in reverse order.
C33_LastInFirstOut ==
    stack.pc # "off"
    => /\ (stack.last.op = "pop" /\ stack.last.threw = "none")
          => stack.last.value = Greatest(stack.last.held)
       /\ {Held(stack.obj)[j] : j \in 1..size(stack.obj)} = stack.outstanding
       /\ \A j, k \in 1..size(stack.obj) :
             j < k => Held(stack.obj)[j] < Held(stack.obj)[k]

C33_Witness ==
    /\ stack.pc = "free"
    /\ stack.last.op = "pop"
    /\ stack.last.threw = "none"
    /\ Cardinality(stack.last.held) >= 3
    /\ stack.pushes > Cardinality(stack.last.held)
    /\ stack.last.value = Greatest(stack.last.held)

\* C34: a push on a stack of fewer than MAX_SIZE elements succeeds and adds
\* its element; a push on a stack of MAX_SIZE elements throws
\* overflow_error and leaves the object as it was; the size is always
\* between 0 and MAX_SIZE.
C34_Capacity ==
    stack.pc # "off"
    => /\ 0 <= size(stack.obj) /\ size(stack.obj) <= MAX_SIZE
       /\ stack.last.op = "push"
          => IF size(stack.last.before) < MAX_SIZE
             THEN /\ stack.last.threw = "none"
                  /\ size(stack.obj) = size(stack.last.before) + 1
                  /\ Held(stack.obj) = Append(Held(stack.last.before), stack.pushes)
             ELSE /\ stack.last.threw = "overflow_error"
                  /\ stack.obj = stack.last.before

C34_Witness ==
    /\ stack.pc = "free"
    /\ stack.last.op = "push"
    /\ stack.last.threw = "overflow_error"
    /\ size(stack.obj) = MAX_SIZE

\* C35: pop and peek on an empty stack throw underflow_error and leave it
\* empty; isEmpty() is true exactly when the size is 0; a stack whose
\* elements were all popped takes a push again.
C35_Underflow ==
    stack.pc # "off"
    => /\ (stack.last.op \in {"pop", "peek"} /\ size(stack.last.before) = 0)
          => /\ stack.last.threw = "underflow_error"
             /\ stack.obj = stack.last.before
             /\ isEmpty(stack.obj)
       /\ (stack.last.op \in {"pop", "peek"} /\ size(stack.last.before) > 0)
          => stack.last.threw = "none"
       /\ isEmpty(stack.obj) <=> size(stack.obj) = 0
       /\ stack.last.op = "observe" => (stack.last.flag <=> stack.last.value = 0)
       /\ stack.outstanding = {}
          => /\ isEmpty(stack.obj)
             /\ push(stack.obj, stack.pushes + 1).threw = "none"

C35_Witness ==
    /\ stack.pc = "free"
    /\ stack.pushes > 0
    /\ stack.last.op = "pop"
    /\ stack.last.threw = "underflow_error"
    /\ isEmpty(stack.obj)

(***************************************************************************)
(* Properties of the dialect search                                        *)
(***************************************************************************)

\* C32: the response body of a C++ request holds the diagnostics list and
\* the dialect of the syntax result.
C32_ResponseCarriesDiagnostics ==
    cppLoop.pc = "responded"
    => /\ "errors" \in DOMAIN cppResult.body
       /\ "standard" \in DOMAIN cppResult.body
       /\ cppResult.body["errors"] = cppResult.errors
       /\ cppResult.body["standard"] = cppResult.standard

Returned == cppLoop.pc \in {"returned", "responded"}

NumStandards == Len(standards(cppBuild))

\* The standards under which the compiler accepts the request's code.
Accepting == {k \in 1..NumStandards : cppCompiler[k] = "ok"}

Newest(S) == CHOOSE k \in S : \A m \in S : k <= m

Oldest(S) == CHOOSE k \in S : \A m \in S : k >= m

NameOf(k) == standards(cppBuild)[k].name

LastAttempt == cppAttempts[Len(cppAttempts)]

\* C6 as stated: code rejected under the newest standard with a standard
\* complaint and accepted under every older one is reported with the oldest
\* accepting standard as the dialect used.
C6_OldestAccepting ==
    (/\ Returned
     /\ cppCompiler[1] = "std"
     /\ \A k \in 2..NumStandards : cppCompiler[k] = "ok")
    => cppResult.standard = NameOf(Oldest(Accepting))

\* C6 as amended: when the newest standard rejects the code with a standard
\* complaint and the search reaches an accepting standard (every standard
\* before the first accepting one fails with a standard complaint), the
\* result is valid and the dialect used is the first accepting standard in
\* list order, that is the newest one that accepts; and every valid result
\* names the newest accepting standard.
C6_NewestAccepting ==
    /\ (/\ Returned
        /\ cppCompiler[1] = "std"
        /\ Accepting # {}
        /\ \A k \in 1..(Newest(Accepting) - 1) : cppCompiler[k] = "std")
       => (cppResult.valid = TRUE /\ cppResult.standard = NameOf(Newest(Accepting)))
    /\ (Returned /\ cppResult.valid = TRUE)
       => (Accepting # {} /\ cppResult.standard = NameOf(Newest(Accepting)))

C6_Witness ==
    /\ Returned
    /\ cppCompiler[1] = "std"
    /\ Cardinality(Accepting) >= 2
    /\ cppResult.valid = TRUE
    /\ cppResult.standard # NameOf(Oldest(Accepting))

\* C7: the attempts are made in list order, newest first; an attempt for the
\* next older standard follows exactly a failure that mentions a standard
\* complaint; nothing follows a success or a failure without such a
\* complaint, and that last attempt's dialect and diagnostics are reported.
C7_SearchOrder ==
    /\ \A j \in 1..Len(cppAttempts) : cppAttempts[j] = j
    /\ \A j \in 1..(Len(cppAttempts) - 1) : cppCompiler[cppAttempts[j]] = "std"
    /\ cppLoop.pc \in {"after", "returned"}
       => /\ cppAttempts # << >>
          /\ (cppCompiler[LastAttempt] = "std" => LastAttempt = NumStandards)
    /\ (Returned /\ cppCompiler[LastAttempt] # "std")
       => /\ cppResult.standard = NameOf(LastAttempt)
          /\ cppResult.valid = (cppCompiler[LastAttempt] = "ok")
          /\ cppResult.valid = FALSE
             => /\ cppResult.from = LastAttempt
                /\ cppResult.errors =
                     ExtractErrors(StderrOf(LastAttempt, cppCompiler[LastAttempt]))

C7_Witness ==
    /\ Returned
    /\ Len(cppAttempts) >= 2
    /\ Len(cppAttempts) < NumStandards
    /\ cppCompiler[LastAttempt] = "other"
    /\ cppResult.from = LastAttempt

\* C8 as stated: in every outcome, exhaustion included, the reported
\* standard names the dialect of the attempt whose result is reported.
C8_StandardNamesReportedAttempt ==
    Returned => cppResult.standard = NameOf(LastAttempt)

\* C8 as amended: when every standard fails with a standard complaint the
\* diagnostics reported are those of the last (oldest) attempt and the
\* reported standard is 'Unknown'; in every other outcome the reported
\* standard names the dialect of the attempt whose result is reported.
C8_Exhaustion ==
    Returned =>
       IF \A k \in 1..NumStandards : cppCompiler[k] = "std"
       THEN /\ cppResult.valid = FALSE
            /\ cppResult.from = NumStandards
            /\ LastAttempt = NumStandards
            /\ cppResult.errors = ExtractErrors(StderrOf(NumStandards, "std"))
            /\ cppResult.standard = "Unknown"
       ELSE /\ cppResult.standard = NameOf(LastAttempt)
            /\ cppResult.valid = FALSE => cppResult.from = LastAttempt

C8_Witness ==
    /\ Returned
    /\ \A k \in 1..NumStandards : cppCompiler[k] = "std"
    /\ cppResult.standard = "Unknown"
    /\ cppResult.errors # << >>

\* C9: one request makes at most as many compiler invocations as the list
\* has entries, each standard at most once, and the search cannot stop
\* before it has returned a result.
C9_BoundedSearch ==
    /\ Len(cppAttempts) <= NumStandards
    /\ \A j, m \in 1..Len(cppAttempts) : cppAttempts[j] = cppAttempts[m] => j = m
    /\ ~Returned => ENABLED CPPNext
    /\ Returned => cppResult # NoResult

C9_Witness ==
    /\ Returned
    /\ Len(cppAttempts) = NumStandards
    /\ cppResult # NoResult

====
